---- MODULE Spec2Model ----
(***************************************************************************)
(* Model of the synchronisation core of Wizard-jb2:                        *)
(*   - the repository-scoped key-value cache                               *)
(*     (app/src/lib/localStorage/database.ts), specification Spec;         *)
(*   - the commit protocol of GitHubInteraction.commitFiles                *)
(*     (app/src/lib/github/githubInteraction.ts), specification SyncSpec;  *)
(*   - commitMultipleFromDatabase over the cache, specification CommitSpec;*)
(*   - the singleton session, its setters and the public fetches,          *)
(*     specification SessionSpec;                                          *)
(*   - the staging of files for the branch of a pull request               *)
(*     (app/src/components/github/GitHubUserPanel.tsx), StagingSpec, and   *)
(*     the handler to its pull request, specification WorkflowSpec;        *)
(*   - loadAll one await at a time, specification LoadAllSpec;             *)
(*   - calls of save with their awaits interleaved, SaveRaceSpec;          *)
(*   - fetchFilesFromBranch and its callbacks, FetchFilesSpec;             *)
(*   - two commitFiles runs interleaved, specification ConcurrentSpec;     *)
(*   - the setters called during a commitFiles run, TargetSpec;            *)
(*   - the panel from its start-up on, specification PanelSpec.            *)
(* Strings whose characters matter (repository names, keys, physical keys) *)
(* are sequences of one-character strings, so that prefixing, startsWith   *)
(* and slice are computed as the code computes them.                       *)
(***************************************************************************)
EXTENDS Integers, Sequences, FiniteSets, TLC

VARIABLES
    activeRepo,   \* database.activeRepo ("" is the empty sequence)
    dbOpen,       \* database.dbPromise is not null
    db,           \* the IndexedDB database "test_database": store -> (physical key -> value)
    savedUnder,   \* history: store -> (physical key -> repository bound when it was last put)
    last,         \* the last cache call: its arguments, the binding it ran under, its outcome
    session,      \* the singleton `github`: its private fields owner, repo, branch, auth
                  \* and, under `signals`, the values of its four signals; in PanelSpec
                  \* also the panel's signal defaultBranch
    refs,         \* remote: branch name -> tip commit SHA, or NoRef; in PanelSpec also
                  \* "HEAD" -> the name of the default branch
    commits,      \* remote: commit SHA -> [tree, parents, message]
    trees,        \* remote: tree SHA -> [base, entries]
    pc,           \* position of the asynchronous operation in progress
    run,          \* locals of that operation; in ConcurrentSpec also, under `other`,
                  \* the run suspended beside it
    log,          \* requests issued by that operation, each with its response status
    refs0,        \* history: refs when the current run started
    runs          \* number of runs (commitFiles, handleCreatePullRequest, save) started

cacheVars == <<activeRepo, dbOpen, db, savedUnder, last>>
syncVars == <<session, refs, commits, trees, pc, run, log, refs0, runs>>
vars == <<activeRepo, dbOpen, db, savedUnder, last,
          session, refs, commits, trees, pc, run, log, refs0, runs>>

(***************************************************************************)
(* Bounds of the model.                                                    *)
(***************************************************************************)
\* at most this many entries in the whole database
MaxEntries == 2
\* at most this many commitFiles runs, one after the other
MaxRuns == 2

(***************************************************************************)
(* Strings.                                                                *)
(***************************************************************************)
EmptyStr == << >>

\* UTF-16 code unit order of the characters used, as IndexedDB orders string keys
CharCode(c) ==
    CASE c = "/" -> 47
      [] c = ":" -> 58
      [] c = "a" -> 97
      [] c = "b" -> 98
      [] c = "k" -> 107

RECURSIVE StrLess(_, _)
StrLess(s, t) ==
    IF t = EmptyStr THEN FALSE
    ELSE IF s = EmptyStr THEN TRUE
    ELSE IF Head(s) = Head(t) THEN StrLess(Tail(s), Tail(t))
    ELSE CharCode(Head(s)) < CharCode(Head(t))

\* String.prototype.startsWith
startsWith(s, p) == Len(s) >= Len(p) /\ SubSeq(s, 1, Len(p)) = p

\* String.prototype.slice(n): the string without its first n characters
slice(s, n) == SubSeq(s, n + 1, Len(s))

\* the elements of a finite set of strings in ascending order
RECURSIVE SortedSeq(_)
SortedSeq(S) ==
    IF S = {} THEN << >>
    ELSE LET m == CHOOSE x \in S : \A y \in S \ {x} : StrLess(x, y)
         IN <<m>> \o SortedSeq(S \ {m})

(***************************************************************************)
(* database.ts                                                             *)
(***************************************************************************)
configStores == {"metadata", "markdown", "images"}

Separator == <<":", ":">>

makePrefixedKey(repo, key) == repo \o Separator \o key

stripPrefix(repo, fullKey) ==
    IF startsWith(fullKey, repo \o Separator)
    THEN slice(fullKey, Len(repo) + 2)
    ELSE fullKey

\* _validateStore that never throws
validateStoreAcceptsAll(store) == TRUE

validateStore(store) == store \in configStores

isInitialised == activeRepo /= EmptyStr

\* inputs of the cache operations
Repos == {<<"a">>, <<"a", ":">>, <<"b">>}
RepoInputs == Repos \cup {EmptyStr}
Keys == {<<"k">>, <<":", "k">>}
Values == {"v1", "v2"}
StoreInputs == {"markdown", "images", "notastore"}

Absent == "undefined"
Void == "void"
NoError == "none"
NotBoundError == "before setting the active repo"
AlreadyBoundError == "change active repo after repo was already set"
InvalidStoreError == "Invalid store"

EmptyDb == [s \in configStores |-> << >>]

Entries(d) == UNION {{<<s, f>> : f \in DOMAIN d[s]} : s \in configStores}

\* IDBObjectStore.put / delete / get on a store given as a function
Put(st, f, v) == [g \in DOMAIN st \cup {f} |-> IF g = f THEN v ELSE st[g]]
Remove(st, F) == [g \in DOMAIN st \ F |-> st[g]]
Get(st, f) == IF f \in DOMAIN st THEN st[f] ELSE Absent

Call(op, store, key, err, result) ==
    [op |-> op, store |-> store, key |-> key, repo |-> activeRepo,
     err |-> err, result |-> result]

\* Precheck with getDB's check of the binding left out
PrecheckWithoutBinding(store) ==
    IF ~validateStore(store) THEN InvalidStoreError ELSE NoError

\* the error a call on `store` raises before it touches the database:
\* _validateStore first, then getDB's check of the binding
Precheck(store) ==
    IF ~validateStore(store) THEN InvalidStoreError
    ELSE IF ~isInitialised THEN NotBoundError
    ELSE NoError

\* a call that threw: nothing but `last` changes
Throws(op, store, key, err) ==
    /\ last' = Call(op, store, key, err, Void)
    /\ UNCHANGED <<activeRepo, dbOpen, db, savedUnder>>

\* the keys database.keys(store) returns under the current binding
keysResult(store) ==
    LET mine == {f \in DOMAIN db[store] : startsWith(f, activeRepo \o Separator)}
        sorted == SortedSeq(mine)
    IN [i \in 1..Len(sorted) |-> stripPrefix(activeRepo, sorted[i])]

RECURSIVE loadAllResult(_, _)
loadAllResult(store, allKeys) ==
    IF allKeys = << >> THEN << >>
    ELSE LET key == Head(allKeys)
             value == Get(db[store], makePrefixedKey(activeRepo, key))
             rest == loadAllResult(store, Tail(allKeys))
         IN IF value /= Absent THEN <<(<<key, value>>)>> \o rest ELSE rest

Range(q) == {q[i] : i \in 1..Len(q)}

\* setActiveRepo without the guard
setActiveRepoOverwrites(repo) ==
    /\ activeRepo' = repo
    /\ last' = Call("setActiveRepo", "", repo, NoError, Void)
    /\ UNCHANGED <<dbOpen, db, savedUnder>>

setActiveRepo(repo) ==
    IF isInitialised
    THEN Throws("setActiveRepo", "", repo, AlreadyBoundError)
    ELSE /\ activeRepo' = repo
         /\ last' = Call("setActiveRepo", "", repo, NoError, Void)
         /\ UNCHANGED <<dbOpen, db, savedUnder>>

save(store, key, value) ==
    IF Precheck(store) /= NoError
    THEN Throws("save", store, key, Precheck(store))
    ELSE LET fullKey == makePrefixedKey(activeRepo, key)
         IN /\ Cardinality(Entries(db) \cup {<<store, fullKey>>}) <= MaxEntries
            /\ db' = [db EXCEPT ![store] = Put(@, fullKey, value)]
            /\ savedUnder' = [savedUnder EXCEPT ![store] = Put(@, fullKey, activeRepo)]
            /\ dbOpen' = TRUE
            /\ last' = Call("save", store, key, NoError, value)
            /\ UNCHANGED activeRepo

\* load that reads the logical key, not the prefixed one
loadUnprefixed(store, key) ==
    IF Precheck(store) /= NoError
    THEN Throws("load", store, key, Precheck(store))
    ELSE /\ last' = Call("load", store, key, NoError, Get(db[store], key))
         /\ dbOpen' = TRUE
         /\ UNCHANGED <<activeRepo, db, savedUnder>>

load(store, key) ==
    IF Precheck(store) /= NoError
    THEN Throws("load", store, key, Precheck(store))
    ELSE /\ last' = Call("load", store, key, NoError,
                         Get(db[store], makePrefixedKey(activeRepo, key)))
         /\ dbOpen' = TRUE
         /\ UNCHANGED <<activeRepo, db, savedUnder>>

loadAll(store) ==
    IF Precheck(store) /= NoError
    THEN Throws("loadAll", store, EmptyStr, Precheck(store))
    ELSE /\ last' = Call("loadAll", store, EmptyStr, NoError,
                         loadAllResult(store, keysResult(store)))
         /\ dbOpen' = TRUE
         /\ UNCHANGED <<activeRepo, db, savedUnder>>

delete(store, key) ==
    IF Precheck(store) /= NoError
    THEN Throws("delete", store, key, Precheck(store))
    ELSE LET fullKey == makePrefixedKey(activeRepo, key)
         IN /\ db' = [db EXCEPT ![store] = Remove(@, {fullKey})]
            /\ savedUnder' = [savedUnder EXCEPT ![store] = Remove(@, {fullKey})]
            /\ dbOpen' = TRUE
            /\ last' = Call("delete", store, key, NoError, Void)
            /\ UNCHANGED activeRepo

keys(store) ==
    IF Precheck(store) /= NoError
    THEN Throws("keys", store, EmptyStr, Precheck(store))
    ELSE /\ last' = Call("keys", store, EmptyStr, NoError, keysResult(store))
         /\ dbOpen' = TRUE
         /\ UNCHANGED <<activeRepo, db, savedUnder>>

clear(store) ==
    IF Precheck(store) /= NoError
    THEN Throws("clear", store, EmptyStr, Precheck(store))
    ELSE LET gone == {makePrefixedKey(activeRepo, k) : k \in Range(keysResult(store))}
         IN /\ db' = [db EXCEPT ![store] = Remove(@, gone)]
            /\ savedUnder' = [savedUnder EXCEPT ![store] = Remove(@, gone)]
            /\ dbOpen' = TRUE
            /\ last' = Call("clear", store, EmptyStr, NoError, Void)
            /\ UNCHANGED activeRepo

\* has that looks for the logical key, not the prefixed one
hasUnprefixed(store, key) ==
    IF Precheck(store) /= NoError
    THEN Throws("has", store, key, Precheck(store))
    ELSE /\ last' = Call("has", store, key, NoError, key \in DOMAIN db[store])
         /\ dbOpen' = TRUE
         /\ UNCHANGED <<activeRepo, db, savedUnder>>

has(store, key) ==
    IF Precheck(store) /= NoError
    THEN Throws("has", store, key, Precheck(store))
    ELSE /\ last' = Call("has", store, key, NoError,
                         makePrefixedKey(activeRepo, key) \in DOMAIN db[store])
         /\ dbOpen' = TRUE
         /\ UNCHANGED <<activeRepo, db, savedUnder>>

\* destroy's argument as `last` records it
Preserve(preserveRepo) == IF preserveRepo THEN <<"preserveRepo">> ELSE EmptyStr

\* destroy that keeps the binding whatever its argument
destroyKeepsRepo(preserveRepo) ==
    /\ dbOpen' = FALSE
    /\ db' = EmptyDb
    /\ savedUnder' = EmptyDb
    /\ last' = Call("destroy", "", Preserve(preserveRepo), NoError, Void)
    /\ UNCHANGED activeRepo

\* destroy that removes the entries of the bound repository only
destroyBoundOnly(preserveRepo) ==
    /\ dbOpen' = FALSE
    /\ activeRepo' = IF preserveRepo THEN activeRepo ELSE EmptyStr
    /\ LET others(st) == {f \in DOMAIN st : ~startsWith(f, activeRepo \o Separator)}
       IN /\ db' = [s \in configStores |-> [f \in others(db[s]) |-> db[s][f]]]
          /\ savedUnder' = [s \in configStores |->
                               [f \in others(db[s]) |-> savedUnder[s][f]]]
    /\ last' = Call("destroy", "", Preserve(preserveRepo), NoError, Void)

destroy(preserveRepo) ==
    /\ dbOpen' = FALSE
    /\ activeRepo' = IF preserveRepo THEN activeRepo ELSE EmptyStr
    /\ db' = EmptyDb
    /\ savedUnder' = EmptyDb
    /\ last' = Call("destroy", "", Preserve(preserveRepo), NoError, Void)

\* --- loadAll step by step, other calls running between its awaits ----------
\* loadAll(store) up to the listing of the keys: _validateStore, getDB, this.keys
loadAllLists ==
    /\ pc \in {"idle", "done", "failed"}
    /\ \E store \in StoreInputs :
         IF Precheck(store) /= NoError
         THEN /\ Throws("loadAll", store, EmptyStr, Precheck(store))
              /\ pc' = "failed"
              /\ run' = [error |-> Precheck(store)]
         ELSE /\ run' = [store |-> store, allKeys |-> keysResult(store),
                         results |-> << >>, i |-> 1]
              /\ pc' = "loadAll: get"
              /\ dbOpen' = TRUE
              /\ UNCHANGED <<activeRepo, db, savedUnder, last>>
    /\ UNCHANGED <<session, refs, commits, trees, log, refs0, runs>>

\* a turn of loadAll's loop that pushes the pair whatever db.get returned
loadAllGetsKeepsUndefined ==
    /\ pc = "loadAll: get"
    /\ run.i <= Len(run.allKeys)
    /\ LET key == run.allKeys[run.i]
           value == Get(db[run.store], makePrefixedKey(activeRepo, key))
       IN run' = [run EXCEPT !.i = @ + 1, !.results = Append(@, <<key, value>>)]
    /\ UNCHANGED <<pc, cacheVars, session, refs, commits, trees, log, refs0, runs>>

\* a turn of loadAll's loop: db.get of the next key listed, under the binding of the
\* moment; the pair is pushed unless the value is undefined
loadAllGets ==
    /\ pc = "loadAll: get"
    /\ run.i <= Len(run.allKeys)
    /\ LET key == run.allKeys[run.i]
           value == Get(db[run.store], makePrefixedKey(activeRepo, key))
       IN run' = [run EXCEPT !.i = @ + 1,
                             !.results = IF value /= Absent
                                         THEN Append(@, <<key, value>>) ELSE @]
    /\ UNCHANGED <<pc, cacheVars, session, refs, commits, trees, log, refs0, runs>>

\* the loop is over: loadAll returns the pairs
loadAllReturns ==
    /\ pc = "loadAll: get"
    /\ run.i > Len(run.allKeys)
    /\ pc' = "done"
    /\ last' = Call("loadAll", run.store, EmptyStr, NoError, run.results)
    /\ UNCHANGED <<run, activeRepo, dbOpen, db, savedUnder,
                   session, refs, commits, trees, log, refs0, runs>>

\* --- save step by step: several calls whose awaits interleave -----------------
\* save(store, key, value) up to its first await: _validateStore, and getDB's check
\* of the binding; the call then waits for the database
saveCalled(store, key, value) ==
    /\ pc \in {"idle", "save"}
    /\ runs < MaxRuns
    /\ runs' = runs + 1
    /\ pc' = "save"
    /\ LET before == IF pc = "idle" THEN [calls |-> << >>, queue |-> << >>,
                                          writes |-> << >>, db0 |-> db]
                     ELSE run
           call == [store |-> store, key |-> key, value |-> value, fullKey |-> EmptyStr,
                    at |-> IF Precheck(store) /= NoError THEN "threw" ELSE "getDB"]
       IN run' = [before EXCEPT !.calls = Append(@, call)]
    /\ IF Precheck(store) /= NoError
       THEN Throws("save", store, key, Precheck(store))
       ELSE dbOpen' = TRUE /\ UNCHANGED <<activeRepo, db, savedUnder, last>>
    /\ UNCHANGED <<session, refs, commits, trees, log, refs0>>

\* a call resumes after `await this.getDB()`: the key is prefixed with the binding of
\* the moment and db.put places its request
saveResumes ==
    /\ pc = "save"
    /\ \E c \in DOMAIN run.calls :
         /\ run.calls[c].at = "getDB"
         /\ run' = [run EXCEPT !.calls[c].at = "put",
                               !.calls[c].fullKey =
                                   makePrefixedKey(activeRepo, run.calls[c].key),
                               !.queue = Append(@, c)]
    /\ UNCHANGED <<pc, cacheVars, session, refs, commits, trees, log, refs0, runs>>

\* the store write of db.add: the entry of a key already present is kept
savePutsKeepsExisting ==
    /\ pc = "save"
    /\ run.queue /= << >>
    /\ LET c == Head(run.queue)
           call == run.calls[c]
       IN /\ db' = [db EXCEPT ![call.store] =
                        IF call.fullKey \in DOMAIN @ THEN @
                        ELSE Put(@, call.fullKey, call.value)]
          /\ savedUnder' = [savedUnder EXCEPT ![call.store] =
                                Put(@, call.fullKey, activeRepo)]
          /\ run' = [run EXCEPT !.calls[c].at = "written", !.queue = Tail(@),
                                !.writes = Append(@, c)]
    /\ UNCHANGED <<pc, activeRepo, dbOpen, last,
                   session, refs, commits, trees, log, refs0, runs>>

\* the store write of db.put: IndexedDB runs the readwrite transactions on a store in
\* the order in which they were created
savePuts ==
    /\ pc = "save"
    /\ run.queue /= << >>
    /\ LET c == Head(run.queue)
           call == run.calls[c]
       IN /\ db' = [db EXCEPT ![call.store] = Put(@, call.fullKey, call.value)]
          /\ savedUnder' = [savedUnder EXCEPT ![call.store] =
                                Put(@, call.fullKey, activeRepo)]
          /\ run' = [run EXCEPT !.calls[c].at = "written", !.queue = Tail(@),
                                !.writes = Append(@, c)]
    /\ UNCHANGED <<pc, activeRepo, dbOpen, last,
                   session, refs, commits, trees, log, refs0, runs>>

\* `await db.put(...)` is over: the call returns
saveReturns ==
    /\ pc = "save"
    /\ \E c \in DOMAIN run.calls :
         /\ run.calls[c].at = "written"
         /\ run' = [run EXCEPT !.calls[c].at = "returned"]
         /\ last' = Call("save", run.calls[c].store, run.calls[c].key, NoError,
                         run.calls[c].value)
    /\ UNCHANGED <<pc, activeRepo, dbOpen, db, savedUnder,
                   session, refs, commits, trees, log, refs0, runs>>

\* a reload of the page: the module object is created anew, IndexedDB persists
Restart ==
    /\ activeRepo' = EmptyStr
    /\ dbOpen' = FALSE
    /\ last' = [op |-> "restart", store |-> "", key |-> EmptyStr, repo |-> EmptyStr,
                err |-> NoError, result |-> Void]
    /\ UNCHANGED <<db, savedUnder>>

CacheInit ==
    /\ activeRepo = EmptyStr
    /\ dbOpen = FALSE
    /\ db = EmptyDb
    /\ savedUnder = EmptyDb
    /\ last = [op |-> "restart", store |-> "", key |-> EmptyStr, repo |-> EmptyStr,
               err |-> NoError, result |-> Void]

SetActiveRepo ==
    /\ \E repo \in RepoInputs : setActiveRepo(repo)
    /\ UNCHANGED syncVars
Save ==
    /\ \E store \in StoreInputs, key \in Keys, value \in Values : save(store, key, value)
    /\ UNCHANGED syncVars
Load ==
    /\ \E store \in StoreInputs, key \in Keys : load(store, key)
    /\ UNCHANGED syncVars
LoadAll ==
    /\ \E store \in StoreInputs : loadAll(store)
    /\ UNCHANGED syncVars
Delete ==
    /\ \E store \in StoreInputs, key \in Keys : delete(store, key)
    /\ UNCHANGED syncVars
ListKeys ==
    /\ \E store \in StoreInputs : keys(store)
    /\ UNCHANGED syncVars
Clear ==
    /\ \E store \in StoreInputs : clear(store)
    /\ UNCHANGED syncVars
Has ==
    /\ \E store \in StoreInputs, key \in Keys : has(store, key)
    /\ UNCHANGED syncVars
Destroy ==
    /\ \E preserveRepo \in BOOLEAN : destroy(preserveRepo)
    /\ UNCHANGED syncVars
PageReload ==
    /\ Restart
    /\ UNCHANGED syncVars

CacheNext ==
    \/ SetActiveRepo
    \/ Save
    \/ Load
    \/ LoadAll
    \/ Delete
    \/ ListKeys
    \/ Clear
    \/ Has
    \/ Destroy
    \/ PageReload

(***************************************************************************)
(* githubInteraction.ts: commitFiles against the remote Git API.           *)
(* A request is in flight from the step that issues it to the step in      *)
(* which its response arrives; the step that receives a response also runs *)
(* the code up to the next fetch.                                          *)
(***************************************************************************)
Branches == {"main", "feature"}
\* the remote repository: its default branch and the objects it starts with
defaultBranch == "main"
\* the default branch the remote reports: the one named by refs["HEAD"] where the
\* remote is given one, defaultBranch otherwise
default_branch == IF "HEAD" \in DOMAIN refs THEN refs["HEAD"] ELSE defaultBranch
NoRef == "no ref"
InitCommit == "c0"
InitTree == "t0"
CommitIds == <<"c1", "c2", "c3", "c4">>
TreeIds == <<"t1", "t2", "t3", "t4">>

\* the status of a request whose response has not arrived
Pending == 0
None == "undefined"
ok(status) == status \in 200..299

\* inputs of commitFiles
Messages == {"msg"}
FileInputs ==
    { << <<"a.md", [typeof |-> "string", val |-> "A"]>> >>,
      << <<"a.md", [typeof |-> "string", val |-> "A"]>>,
         <<"b.json", [typeof |-> "object", val |-> "B"]>> >> }

\* get headers(): the credential every request carries
headers == [Authorization |-> <<"token", session.auth>>]

Request(kind, owner, repo, branch, body) ==
    [kind |-> kind, owner |-> owner, repo |-> repo, branch |-> branch,
     headers |-> headers, body |-> body, status |-> Pending]

NoBody == [sha |-> None]

\* the response to the request in flight arrives
Answer(status) == [log EXCEPT ![Len(log)].status = status]

InFlight == {i \in 1..Len(log) : log[i].status = Pending}

\* the error caught and logged (as fetchFiles does), the run ending normally
ThrowSwallowed(status, message) ==
    /\ log' = Answer(status)
    /\ pc' = "done"
    /\ UNCHANGED run

\* a rejected promise leaves the run: nothing catches it inside commitFiles
Throw(status, message) ==
    /\ log' = Answer(status)
    /\ pc' = "failed"
    /\ run' = [run EXCEPT !.error = message]

\* the parts of the response that the template of each error message interpolates
ErrorParts(message) ==
    CASE message = "Failed to load repo info" -> {"status", "body"}
      [] message = "Failed to list branches" -> {"status", "body"}
      [] message = "Create branch failed" -> {"status", "body"}
      [] message = "Tree creation failed" -> {"status", "body"}
      [] message = "Commit creation failed" -> {"status", "body"}
      [] message = "Update ref failed" -> {"status", "body"}
      [] message = "Error loading branch" -> {"status"}
      [] message = "Error getting file from" -> {}
      [] message = "Branch creation failed; could not load commit info." -> {}
      [] OTHER -> {}

\* --- the remote's side of each endpoint ---------------------------------
RECURSIVE Ancestors(_, _)
Ancestors(cs, c) ==
    {c} \cup UNION {Ancestors(cs, cs[c].parents[i]) : i \in 1..Len(cs[c].parents)}

\* the one repository of the remote; a request naming another gets not-found
Found(req) == req.owner = "owner" /\ req.repo = "repo"
\* GET /repos/{owner}/{repo}
RepoInfoStatuses(req) == (IF Found(req) THEN {200} ELSE {404}) \cup {500}
\* GET /repos/{owner}/{repo}/branches/{branch}
BranchStatuses(branch) ==
    (IF refs[branch] /= NoRef THEN {200} ELSE {404}) \cup {500}
\* POST /git/refs: sha must name an existing commit, the ref must be new
CreateRefStatuses(body) ==
    (IF body.sha \in DOMAIN commits /\ refs[body.ref[3]] = NoRef THEN {201} ELSE {422})
        \cup {500}
\* POST /git/trees
CreateTreeStatuses(body) ==
    (IF body.base_tree \in DOMAIN trees THEN {201} ELSE {422}) \cup {500}
\* POST /git/commits
CreateCommitStatuses(body) ==
    (IF body.tree \in DOMAIN trees /\ Range(body.parents) \subseteq DOMAIN commits
     THEN {201} ELSE {422}) \cup {500}
\* PATCH /git/refs/heads/{branch}, not forced: fast-forward only
UpdateRefStatuses(branch, body) ==
    (IF /\ refs[branch] /= NoRef
        /\ body.sha \in DOMAIN commits
        /\ refs[branch] \in Ancestors(commits, body.sha)
     THEN {200} ELSE {422}) \cup {500}

NewCommitId == CommitIds[Cardinality(DOMAIN commits)]
NewTreeId == TreeIds[Cardinality(DOMAIN trees)]

\* --- the client -----------------------------------------------------------
\* BranchCommitInfo of a branch tip, from the branch response
BranchCommitInfo(branch) ==
    LET tip == commits[refs[branch]]
    IN [sha |-> refs[branch],
        treeSha |-> tip.tree,
        parents |-> [i \in 1..Len(tip.parents) |-> [sha |-> tip.parents[i]]]]

updateTreeInfo(base, newTreeSha) ==
    [sha |-> base.sha, treeSha |-> newTreeSha, parents |-> <<[sha |-> base.sha]>>]

updateCommitInfo(response) ==
    [sha |-> response.sha,
     treeSha |-> response.tree.sha,
     parents |-> [i \in 1..Len(response.parents) |-> [sha |-> response.parents[i].sha]]]

\* the response bodies.  POST /git/commits answers {sha, tree: {sha}, parents: [{sha}]}.
\* POST /git/trees answers with the new tree: a host may put its SHA where the client
\* reads it (data.tree.sha); api.github.com answers {sha, url, tree: [entries],
\* truncated}, whose `tree` is the array of the entries
CreateTreeResponse(body) == [sha |-> NewTreeId, tree |-> [sha |-> NewTreeId]]
CreateTreeResponseOfGitHub(body) == [sha |-> NewTreeId, tree |-> [length |-> Len(body.tree)]]
\* obj[name] in JavaScript: undefined when obj has no such property
Property(obj, name) == IF name \in DOMAIN obj THEN obj[name] ELSE None
CreateCommitResponse(body) ==
    [sha |-> NewCommitId,
     tree |-> [sha |-> body.tree],
     parents |-> [i \in 1..Len(body.parents) |-> [sha |-> body.parents[i]]]]

\* files.map(...) of createTreeWithFiles
TreeEntries(files) ==
    [i \in 1..Len(files) |->
        [path |-> files[i][1], mode |-> "100644", type |-> "blob",
         content |-> IF files[i][2].typeof = "string"
                     THEN files[i][2].val
                     ELSE <<"JSON.stringify", files[i][2].val>>]]

fetchRepoInfoRequest(owner, repo) ==
    Request("repoInfo", owner, repo, "", NoBody)

fetchBranchCommitInfoRequest(owner, repo, branch) ==
    Request("branch", owner, repo, branch, NoBody)

createBranchRequest(owner, repo, branch, base) ==
    Request("createRef", owner, repo, "",
            [ref |-> <<"refs", "heads", branch>>, sha |-> base])

createTreeWithFilesRequest(owner, repo, files, base) ==
    Request("createTree", owner, repo, "",
            [base_tree |-> base.treeSha, tree |-> TreeEntries(files)])

createCommitFromTreeRequest(owner, repo, message, base) ==
    Request("createCommit", owner, repo, "",
            [message |-> message, tree |-> base.treeSha,
             parents |-> [i \in 1..Len(base.parents) |-> base.parents[i].sha]])

updateBranchRefRequest(owner, repo, branch, sha) ==
    Request("updateRef", owner, repo, branch, [sha |-> sha])

\* commitFiles whose ensureBranchCommit starts both fetches without awaiting the first
commitFilesUnawaited(message, files) ==
    /\ pc \in {"idle", "done", "failed"}
    /\ runs < MaxRuns
    /\ runs' = runs + 1
    /\ refs0' = refs
    /\ run' = [owner |-> session.owner, repo |-> session.repo, branch |-> session.branch,
               message |-> message, files |-> files, default_branch |-> None,
               baseCommit |-> None, treeCommit |-> None, newCommit |-> None,
               error |-> NoError]
    /\ log' = <<fetchRepoInfoRequest(session.owner, session.repo),
                fetchBranchCommitInfoRequest(session.owner, session.repo, session.branch)>>
    /\ pc' = "fetchBranchCommitInfo"
    /\ UNCHANGED <<session, refs, commits, trees, cacheVars>>

\* the first statements of commitFiles(message, files): the private fields are read
\* and ensureBranchCommit issues its first fetch
commitFilesStarts(message, files) ==
    /\ runs' = runs + 1
    /\ refs0' = refs
    /\ run' = [owner |-> session.owner, repo |-> session.repo, branch |-> session.branch,
               message |-> message, files |-> files, default_branch |-> None,
               baseCommit |-> None, treeCommit |-> None, newCommit |-> None,
               error |-> NoError]
    /\ log' = <<fetchRepoInfoRequest(session.owner, session.repo)>>
    /\ pc' = "fetchRepoInfo"

\* commitFiles(message, files) up to the first fetch, inside ensureBranchCommit
commitFiles(message, files) ==
    /\ pc \in {"idle", "done", "failed"}
    /\ runs < MaxRuns
    /\ commitFilesStarts(message, files)
    /\ UNCHANGED <<session, refs, commits, trees, cacheVars>>

\* fetchRepoInfo answered, the request issued once more after a first failure
fetchRepoInfoReturnsRetrying ==
    /\ pc = "fetchRepoInfo"
    /\ \E status \in RepoInfoStatuses(log[Len(log)]) :
        IF ~ok(status)
        THEN IF Len(log) = 1
             THEN /\ log' = Append(Answer(status), fetchRepoInfoRequest(run.owner, run.repo))
                  /\ UNCHANGED <<pc, run>>
             ELSE Throw(status, "Failed to load repo info")
        ELSE /\ run' = [run EXCEPT !.default_branch = default_branch]
             /\ log' = Append(Answer(status),
                              fetchBranchCommitInfoRequest(run.owner, run.repo, run.branch))
             /\ pc' = "fetchBranchCommitInfo"
    /\ UNCHANGED <<session, refs, commits, trees, refs0, runs, cacheVars>>

\* ensureBranchCommit: fetchRepoInfo answered, then the branch lookup
fetchRepoInfoReturns ==
    /\ pc = "fetchRepoInfo"
    /\ \E status \in RepoInfoStatuses(log[Len(log)]) :
        IF ~ok(status)
        THEN Throw(status, "Failed to load repo info")
        ELSE /\ run' = [run EXCEPT !.default_branch = default_branch]
             /\ log' = Append(Answer(status),
                              fetchBranchCommitInfoRequest(run.owner, run.repo, run.branch))
             /\ pc' = "fetchBranchCommitInfo"
    /\ UNCHANGED <<session, refs, commits, trees, refs0, runs, cacheVars>>

\* fetchBranchCommitInfo returning undefined on every failure, not on 404 alone
fetchBranchCommitInfoReturnsAnyFailureMissing ==
    /\ pc \in {"fetchBranchCommitInfo", "fetchBranchCommitInfoAgain"}
    /\ \E status \in BranchStatuses(run.branch) :
        IF ~ok(status)
        THEN IF pc = "fetchBranchCommitInfo"
             THEN /\ log' = Append(Answer(status),
                                   createBranchRequest(run.owner, run.repo, run.branch,
                                                       run.default_branch))
                  /\ pc' = "createBranch"
                  /\ UNCHANGED run
             ELSE Throw(status, "Branch creation failed; could not load commit info.")
        ELSE LET commit == BranchCommitInfo(run.branch)
             IN /\ run' = [run EXCEPT !.baseCommit = commit]
                /\ log' = Append(Answer(status),
                                 createTreeWithFilesRequest(run.owner, run.repo,
                                                            run.files, commit))
                /\ pc' = "createTreeWithFiles"
    /\ UNCHANGED <<session, refs, commits, trees, refs0, runs, cacheVars>>

\* ensureBranchCommit and commitFiles after a branch lookup (the first or the second)
fetchBranchCommitInfoReturns ==
    /\ pc \in {"fetchBranchCommitInfo", "fetchBranchCommitInfoAgain"}
    /\ \E status \in BranchStatuses(run.branch) :
        IF status = 404
        THEN IF pc = "fetchBranchCommitInfo"
             THEN /\ log' = Append(Answer(status),
                                   createBranchRequest(run.owner, run.repo, run.branch,
                                                       run.default_branch))
                  /\ pc' = "createBranch"
                  /\ UNCHANGED run
             ELSE Throw(status, "Branch creation failed; could not load commit info.")
        ELSE IF ~ok(status)
        THEN Throw(status, "Error loading branch")
        ELSE LET commit == BranchCommitInfo(run.branch)
             IN /\ run' = [run EXCEPT !.baseCommit = commit]
                /\ log' = Append(Answer(status),
                                 createTreeWithFilesRequest(run.owner, run.repo,
                                                            run.files, commit))
                /\ pc' = "createTreeWithFiles"
    /\ UNCHANGED <<session, refs, commits, trees, refs0, runs, cacheVars>>

\* createBranch that does not check the response: the second lookup follows a failure
createBranchReturnsUnchecked ==
    /\ pc = "createBranch"
    /\ LET body == log[Len(log)].body
       IN \E status \in CreateRefStatuses(body) :
            /\ refs' = IF ok(status) THEN [refs EXCEPT ![body.ref[3]] = body.sha] ELSE refs
            /\ log' = Append(Answer(status),
                             fetchBranchCommitInfoRequest(run.owner, run.repo, run.branch))
            /\ pc' = "fetchBranchCommitInfoAgain"
            /\ UNCHANGED run
    /\ UNCHANGED <<session, commits, trees, refs0, runs, cacheVars>>

\* createBranch answered, then the second branch lookup
createBranchReturns ==
    /\ pc = "createBranch"
    /\ LET body == log[Len(log)].body
       IN \E status \in CreateRefStatuses(body) :
            IF ~ok(status)
            THEN Throw(status, "Create branch failed") /\ UNCHANGED refs
            ELSE /\ refs' = [refs EXCEPT ![body.ref[3]] = body.sha]
                 /\ log' = Append(Answer(status),
                                  fetchBranchCommitInfoRequest(run.owner, run.repo,
                                                               run.branch))
                 /\ pc' = "fetchBranchCommitInfoAgain"
                 /\ UNCHANGED run
    /\ UNCHANGED <<session, commits, trees, refs0, runs, cacheVars>>

\* createTreeWithFiles answered, then createCommitFromTree
createTreeWithFilesReturns ==
    /\ pc = "createTreeWithFiles"
    /\ LET body == log[Len(log)].body
       IN \E status \in CreateTreeStatuses(body) :
            IF ~ok(status)
            THEN Throw(status, "Tree creation failed") /\ UNCHANGED trees
            ELSE \E data \in {CreateTreeResponse(body), CreateTreeResponseOfGitHub(body)} :
                 LET treeCommit == updateTreeInfo(run.baseCommit,
                                                  Property(data.tree, "sha"))
                 IN /\ trees' = (NewTreeId :> [base |-> body.base_tree,
                                               entries |-> body.tree]) @@ trees
                    /\ run' = [run EXCEPT !.treeCommit = treeCommit]
                    /\ log' = Append(Answer(status),
                                     createCommitFromTreeRequest(run.owner, run.repo,
                                                                 run.message, treeCommit))
                    /\ pc' = "createCommitFromTree"
    /\ UNCHANGED <<session, refs, commits, refs0, runs, cacheVars>>

\* commitFiles reading the target again, through the getters, for its last request
createCommitFromTreeReturnsRereads ==
    /\ pc = "createCommitFromTree"
    /\ LET body == log[Len(log)].body
       IN \E status \in CreateCommitStatuses(body) :
            IF ~ok(status)
            THEN Throw(status, "Commit creation failed") /\ UNCHANGED commits
            ELSE LET data == CreateCommitResponse(body)
                     newCommit == updateCommitInfo(data)
                 IN /\ commits' = (NewCommitId :> [tree |-> body.tree,
                                                   parents |-> body.parents,
                                                   message |-> body.message]) @@ commits
                    /\ run' = [run EXCEPT !.newCommit = newCommit]
                    /\ log' = Append(Answer(status),
                                     updateBranchRefRequest(session.signals.owner,
                                                            session.signals.repo,
                                                            session.signals.branch,
                                                            newCommit.sha))
                    /\ pc' = "updateBranchRef"
    /\ UNCHANGED <<session, refs, trees, refs0, runs, cacheVars>>

\* createCommitFromTree answered, then updateBranchRef
createCommitFromTreeReturns ==
    /\ pc = "createCommitFromTree"
    /\ LET body == log[Len(log)].body
       IN \E status \in CreateCommitStatuses(body) :
            IF ~ok(status)
            THEN Throw(status, "Commit creation failed") /\ UNCHANGED commits
            ELSE LET data == CreateCommitResponse(body)
                     newCommit == updateCommitInfo(data)
                 IN /\ commits' = (NewCommitId :> [tree |-> body.tree,
                                                   parents |-> body.parents,
                                                   message |-> body.message]) @@ commits
                    /\ run' = [run EXCEPT !.newCommit = newCommit]
                    /\ log' = Append(Answer(status),
                                     updateBranchRefRequest(run.owner, run.repo,
                                                            run.branch, newCommit.sha))
                    /\ pc' = "updateBranchRef"
    /\ UNCHANGED <<session, refs, trees, refs0, runs, cacheVars>>

\* updateBranchRef against a remote that moves the ref to any commit it holds, as a
\* forced update would
updateBranchRefReturnsForced ==
    /\ pc = "updateBranchRef"
    /\ LET req == log[Len(log)]
       IN \E status \in (IF refs[req.branch] /= NoRef /\ req.body.sha \in DOMAIN commits
                         THEN {200} ELSE {422}) \cup {500} :
            IF ~ok(status)
            THEN Throw(status, "Update ref failed") /\ UNCHANGED refs
            ELSE /\ refs' = [refs EXCEPT ![req.branch] = req.body.sha]
                 /\ log' = Answer(status)
                 /\ pc' = "done"
                 /\ UNCHANGED run
    /\ UNCHANGED <<session, commits, trees, refs0, runs, cacheVars>>

\* updateBranchRef answered: commitFiles returns
updateBranchRefReturns ==
    /\ pc = "updateBranchRef"
    /\ LET req == log[Len(log)]
       IN \E status \in UpdateRefStatuses(req.branch, req.body) :
            IF ~ok(status)
            THEN Throw(status, "Update ref failed") /\ UNCHANGED refs
            ELSE /\ refs' = [refs EXCEPT ![req.branch] = req.body.sha]
                 /\ log' = Answer(status)
                 /\ pc' = "done"
                 /\ UNCHANGED run
    /\ UNCHANGED <<session, commits, trees, refs0, runs, cacheVars>>

CommitFiles == \E message \in Messages, files \in FileInputs : commitFiles(message, files)

(***************************************************************************)
(* githubInteraction.ts: commitMultipleFromDatabase, which reads the files *)
(* of its commit from the cache.                                           *)
(***************************************************************************)
\* Array.prototype.join
RECURSIVE join(_, _)
join(strs, sep) ==
    IF strs = << >> THEN EmptyStr
    ELSE IF Len(strs) = 1 THEN strs[1]
    ELSE strs[1] \o sep \o join(Tail(strs), sep)

\* the key arrays passed to commitMultipleFromDatabase: the panel's selectedFiles, a
\* Set turned into an array, so keys in any order and none twice
KeyLists ==
    {ks \in UNION {[1..n -> Keys] : n \in 0..Cardinality(Keys)} :
        \A i, j \in DOMAIN ks : i /= j => ks[i] /= ks[j]}

\* database.loadMultiple(store, ks): each key is loaded; the [key, value] pairs of
\* the keys that have a value, in the order of the keys asked for
loadMultiple(store, ks) == loadAllResult(store, ks)

\* a cached document as the content of a file: the cache holds strings
Content(value) == [typeof |-> "string", val |-> value]

MissingFilesError == "Missing files for keys: "

\* a call that throws before commitFiles is entered: no request is issued
Rejects(error) ==
    /\ run' = error
    /\ log' = << >>
    /\ pc' = "failed"
    /\ UNCHANGED <<runs, refs0>>

\* commitMultipleFromDatabase that reports the first missing key only
commitMultipleFromDatabaseFirstMissing(message, ks, store) ==
    /\ pc \in {"idle", "done", "failed"}
    /\ runs < MaxRuns
    /\ IF Precheck(store) /= NoError
       THEN /\ Throws("loadMultiple", store, ks, Precheck(store))
            /\ Rejects([error |-> Precheck(store)])
       ELSE LET files == loadMultiple(store, ks)
                foundKeys == {files[i][1] : i \in 1..Len(files)}
                missing == SelectSeq(ks, LAMBDA k : k \notin foundKeys)
            IN /\ last' = Call("loadMultiple", store, ks, NoError, files)
               /\ dbOpen' = TRUE
               /\ UNCHANGED <<activeRepo, db, savedUnder>>
               /\ IF Len(missing) /= 0
                  THEN Rejects([error |-> MissingFilesError, keys |-> missing[1]])
                  ELSE commitFilesStarts(message,
                            [i \in 1..Len(files) |-> <<files[i][1], Content(files[i][2])>>])
    /\ UNCHANGED <<session, refs, commits, trees>>

\* commitMultipleFromDatabase(message, ks, store) up to its throw or to the first
\* fetch of commitFiles; k.toString() of a string key is the key
commitMultipleFromDatabase(message, ks, store) ==
    /\ pc \in {"idle", "done", "failed"}
    /\ runs < MaxRuns
    /\ IF Precheck(store) /= NoError
       THEN /\ Throws("loadMultiple", store, ks, Precheck(store))
            /\ Rejects([error |-> Precheck(store)])
       ELSE LET files == loadMultiple(store, ks)
                foundKeys == {files[i][1] : i \in 1..Len(files)}
                missing == SelectSeq(ks, LAMBDA k : k \notin foundKeys)
            IN /\ last' = Call("loadMultiple", store, ks, NoError, files)
               /\ dbOpen' = TRUE
               /\ UNCHANGED <<activeRepo, db, savedUnder>>
               /\ IF Len(missing) /= 0
                  THEN Rejects([error |-> MissingFilesError,
                                keys |-> join(missing, <<",", " ">>)])
                  ELSE commitFilesStarts(message,
                            [i \in 1..Len(files) |-> <<files[i][1], Content(files[i][2])>>])
    /\ UNCHANGED <<session, refs, commits, trees>>

\* commitFromDatabase(message, key, store) up to its throw or to the first fetch of
\* commitFiles
commitFromDatabase(message, key, store) ==
    /\ pc \in {"idle", "done", "failed"}
    /\ runs < MaxRuns
    /\ IF Precheck(store) /= NoError
       THEN /\ Throws("load", store, key, Precheck(store))
            /\ Rejects([error |-> Precheck(store)])
       ELSE LET file == Get(db[store], makePrefixedKey(activeRepo, key))
            IN /\ last' = Call("load", store, key, NoError, file)
               /\ dbOpen' = TRUE
               /\ UNCHANGED <<activeRepo, db, savedUnder>>
               /\ IF file = Absent
                  THEN Rejects([error |-> "No file found under key"])
                  ELSE commitFilesStarts(message, <<<<key, Content(file)>>>>)
    /\ UNCHANGED <<session, refs, commits, trees>>

\* commitAllFromDatabase without the check of files.length
commitAllFromDatabaseUnchecked(message, store) ==
    /\ pc \in {"idle", "done", "failed"}
    /\ runs < MaxRuns
    /\ IF Precheck(store) /= NoError
       THEN /\ Throws("loadAll", store, EmptyStr, Precheck(store))
            /\ Rejects([error |-> Precheck(store)])
       ELSE LET files == loadAllResult(store, keysResult(store))
            IN /\ last' = Call("loadAll", store, EmptyStr, NoError, files)
               /\ dbOpen' = TRUE
               /\ UNCHANGED <<activeRepo, db, savedUnder>>
               /\ commitFilesStarts(message,
                      [i \in 1..Len(files) |-> <<files[i][1], Content(files[i][2])>>])
    /\ UNCHANGED <<session, refs, commits, trees>>

\* commitAllFromDatabase(message, store) up to its throw or to the first fetch of
\* commitFiles
commitAllFromDatabase(message, store) ==
    /\ pc \in {"idle", "done", "failed"}
    /\ runs < MaxRuns
    /\ IF Precheck(store) /= NoError
       THEN /\ Throws("loadAll", store, EmptyStr, Precheck(store))
            /\ Rejects([error |-> Precheck(store)])
       ELSE LET files == loadAllResult(store, keysResult(store))
            IN /\ last' = Call("loadAll", store, EmptyStr, NoError, files)
               /\ dbOpen' = TRUE
               /\ UNCHANGED <<activeRepo, db, savedUnder>>
               /\ IF Len(files) = 0
                  THEN Rejects([error |-> "No files found in store"])
                  ELSE commitFilesStarts(message,
                           [i \in 1..Len(files) |-> <<files[i][1], Content(files[i][2])>>])
    /\ UNCHANGED <<session, refs, commits, trees>>

CommitMultipleFromDatabase ==
    \E message \in Messages, ks \in KeyLists, store \in StoreInputs :
        commitMultipleFromDatabase(message, ks, store)

\* constructor(repo, owner, auth, branch): the private fields, and one signal for
\* each that starts with the same value
GitHubInteraction(repo, owner, auth, branch) ==
    [repo |-> repo, owner |-> owner, auth |-> auth, branch |-> branch,
     signals |-> [repo |-> repo, owner |-> owner, auth |-> auth, branch |-> branch]]

(***************************************************************************)
(* githubInteraction.ts: the setters of the session and the public methods *)
(* of one request each.                                                    *)
(***************************************************************************)
\* the values given to the setters
SessionInputs ==
    [owner |-> {"", "owner"}, repo |-> {"", "repo"},
     branch |-> Branches \cup {""}, auth |-> {"", "token"}]

\* setOwner, setRepo, setBranch, setAuth are the setters of the signals
SetOwner ==
    /\ \E v \in SessionInputs.owner : session' = [session EXCEPT !.signals.owner = v]
    /\ UNCHANGED <<refs, commits, trees, pc, run, log, refs0, runs, cacheVars>>
SetRepo ==
    /\ \E v \in SessionInputs.repo : session' = [session EXCEPT !.signals.repo = v]
    /\ UNCHANGED <<refs, commits, trees, pc, run, log, refs0, runs, cacheVars>>
SetBranch ==
    /\ \E v \in SessionInputs.branch : session' = [session EXCEPT !.signals.branch = v]
    /\ UNCHANGED <<refs, commits, trees, pc, run, log, refs0, runs, cacheVars>>
SetAuth ==
    /\ \E v \in SessionInputs.auth : session' = [session EXCEPT !.signals.auth = v]
    /\ UNCHANGED <<refs, commits, trees, pc, run, log, refs0, runs, cacheVars>>

\* the content of `path` in tree `t` of the remote, None when it has none
RECURSIVE FileAt(_, _)
FileAt(t, path) ==
    IF t = None THEN None
    ELSE LET hits == {i \in DOMAIN trees[t].entries : trees[t].entries[i].path = path}
         IN IF hits /= {}
            THEN trees[t].entries[CHOOSE i \in hits : \A j \in hits : j <= i].content
            ELSE FileAt(trees[t].base, path)

\* GET /repos/{owner}/{repo}/contents/{path}?ref={branch}
ContentsStatuses(req) ==
    (IF /\ Found(req)
        /\ req.branch \in Branches
        /\ refs[req.branch] /= NoRef
        /\ FileAt(commits[refs[req.branch]].tree, req.body.path) /= None
     THEN {200} ELSE {404}) \cup {500}

\* a public method of one request, up to its fetch
Fetches(op, request) ==
    /\ pc \in {"idle", "done", "failed"}
    /\ pc' = op
    /\ run' = [error |-> NoError, result |-> None]
    /\ log' = <<request>>
    /\ UNCHANGED <<session, refs, commits, trees, refs0, runs, cacheVars>>

\* the fetch of a public method of one request is answered: the method throws or
\* returns `result`
Resolves(op, statuses, message, result) ==
    /\ pc = op
    /\ \E status \in statuses :
        IF ~ok(status)
        THEN Throw(status, message)
        ELSE /\ log' = Answer(status)
             /\ pc' = "done"
             /\ run' = [run EXCEPT !.result = result]
    /\ UNCHANGED <<session, refs, commits, trees, refs0, runs, cacheVars>>

\* fetchRepoInfo() with its default arguments, the signals' values
fetchRepoInfo ==
    Fetches("fetchRepoInfo()",
            fetchRepoInfoRequest(session.signals.owner, session.signals.repo))
fetchRepoInfoResolves ==
    Resolves("fetchRepoInfo()", RepoInfoStatuses(log[1]), "Failed to load repo info",
             [default_branch |-> default_branch])

\* fetchRemoteBranches(): GET /repos/{owner}/{repo}/branches is answered as
\* GET /repos/{owner}/{repo} is; the names of the branches, here as a set
fetchRemoteBranches ==
    Fetches("fetchRemoteBranches",
            Request("branches", session.signals.owner, session.signals.repo, "", NoBody))
fetchRemoteBranchesResolves ==
    Resolves("fetchRemoteBranches", RepoInfoStatuses(log[1]), "Failed to list branches",
             {b \in Branches : refs[b] /= NoRef})

\* fetchFileFromBranch(filePath, branchName); the path is part of the URL
fetchFileFromBranch ==
    \E filePath \in Keys, branchName \in Branches :
        Fetches("fetchFileFromBranch",
                Request("contents", session.signals.owner, session.signals.repo,
                        branchName, [path |-> filePath]))
fetchFileFromBranchResolves ==
    Resolves("fetchFileFromBranch", ContentsStatuses(log[1]), "Error getting file",
             IF refs[log[1].branch] = NoRef THEN None
             ELSE FileAt(commits[refs[log[1].branch]].tree, log[1].body.path))

\* fetchFilesFromBranch(filePaths, branchName): forEach starts one fetchFileFromBranch
\* per path in an async callback that nothing awaits, and `files` is returned at once
fetchFilesFromBranch ==
    /\ pc \in {"idle", "done", "failed"}
    /\ runs < MaxRuns
    /\ runs' = runs + 1
    /\ \E filePaths \in KeyLists, branchName \in Branches :
         /\ run' = [filePaths |-> filePaths, branchName |-> branchName,
                    first |-> Len(log) + 1, files |-> << >>, error |-> NoError]
         /\ log' = log \o [i \in 1..Len(filePaths) |->
                             Request("contents", session.signals.owner,
                                     session.signals.repo, branchName,
                                     [path |-> filePaths[i]])]
    /\ pc' = "done"
    /\ UNCHANGED <<session, refs, commits, trees, refs0, cacheVars>>

\* fetchFiles(filePaths): `return await this.fetchFilesFromBranch(filePaths,
\* this.getBranch())` inside try.  The promise of fetchFilesFromBranch is fulfilled
\* with `files` whatever becomes of the fetches, so the await never throws: the catch,
\* the second try with fetchRepoInfo and the default branch, and the final throw are
\* never entered, and fetchFiles returns what the first call returned
fetchFiles ==
    /\ pc \in {"idle", "done", "failed"}
    /\ runs < MaxRuns
    /\ runs' = runs + 1
    /\ \E filePaths \in KeyLists :
         /\ run' = [filePaths |-> filePaths, branchName |-> session.signals.branch,
                    first |-> Len(log) + 1, files |-> << >>, error |-> NoError,
                    fallback |-> FALSE]
         /\ log' = log \o [i \in 1..Len(filePaths) |->
                             Request("contents", session.signals.owner,
                                     session.signals.repo, session.signals.branch,
                                     [path |-> filePaths[i]])]
    /\ pc' = "done"
    /\ UNCHANGED <<session, refs, commits, trees, refs0, cacheVars>>

\* the response to one of the fetches in flight arrives, in any order: the callback
\* pushes the content to `files`, or throws inside its own promise, which nothing
\* observes
fetchFilesFromBranchCallbackResumes ==
    /\ \E i \in InFlight : \E status \in ContentsStatuses(log[i]) :
         /\ log' = [log EXCEPT ![i].status = status]
         /\ IF ok(status) /\ i >= run.first
            THEN run' = [run EXCEPT !.files =
                            Append(@, FileAt(commits[refs[log[i].branch]].tree,
                                             log[i].body.path))]
            ELSE UNCHANGED run
    /\ UNCHANGED <<session, refs, commits, trees, pc, refs0, runs, cacheVars>>

(***************************************************************************)
(* GitHubUserPanel.tsx: handleCreatePullRequest from the call of           *)
(* ensureBranchExists to the call of commitMultipleFromDatabase: the       *)
(* files selected are staged for the branch of the pull request.  Here     *)
(* `log` keeps the requests of every run of the handler, `run.first` is    *)
(* the position of the first request of the current one.                   *)
(***************************************************************************)
\* the physical key of `key` in the namespace of `branch` of `repo`
makeBranchKey(repo, branch, key) ==
    makePrefixedKey(<<repo>>, makePrefixedKey(<<branch>>, key))

\* database.loadFrom(store, repo, branch, key): the value, or undefined
loadFrom(store, repo, branch, key) == Get(db[store], makeBranchKey(repo, branch, key))

\* database.saveTo(store, repo, branch, key, value)
saveTo(store, repo, branch, key, value) ==
    /\ db' = [db EXCEPT ![store] = Put(@, makeBranchKey(repo, branch, key), value)]
    /\ savedUnder' = [savedUnder EXCEPT
                        ![store] = Put(@, makeBranchKey(repo, branch, key), activeRepo)]
    /\ dbOpen' = TRUE
    /\ last' = Call("saveTo", store, key, NoError, value)
    /\ UNCHANGED activeRepo

\* ensureBranchExists that asks for the default branch without looking the branch up
ensureBranchExistsWithoutLookup(branch) ==
    /\ log' = Append(log, fetchRepoInfoRequest(session.signals.owner, session.signals.repo))
    /\ pc' = "ensureBranchExists: repoInfo"

\* github.ensureBranchExists(branch), up to its first fetch: the branch is looked up
ensureBranchExists(branch) ==
    /\ log' = Append(log, fetchBranchCommitInfoRequest(session.signals.owner,
                                                       session.signals.repo, branch))
    /\ pc' = "ensureBranchExists: lookup"

\* a response to a request of ensureBranchExists arrives.  A branch that exists is
\* left alone; one that does not is created at the tip of the default branch:
\* repository info, the default branch's tip, the ref-create.  Any other failure is
\* thrown to the handler, whose catch reports it.
ensureBranchExistsReturns ==
    /\ LET req == log[Len(log)]
       IN CASE pc = "ensureBranchExists: lookup" ->
                 \E status \in BranchStatuses(run.target) :
                    IF status = 404
                    THEN /\ log' = Append(Answer(status),
                                          fetchRepoInfoRequest(req.owner, req.repo))
                         /\ pc' = "ensureBranchExists: repoInfo"
                         /\ UNCHANGED <<run, refs>>
                    ELSE IF ~ok(status)
                    THEN Throw(status, "Error loading branch") /\ UNCHANGED refs
                    ELSE /\ log' = Answer(status)
                         /\ pc' = "stage"
                         /\ UNCHANGED <<run, refs>>
            [] pc = "ensureBranchExists: repoInfo" ->
                 \E status \in RepoInfoStatuses(req) :
                    IF ~ok(status)
                    THEN Throw(status, "Failed to load repo info") /\ UNCHANGED refs
                    ELSE /\ log' = Append(Answer(status),
                                          fetchBranchCommitInfoRequest(req.owner, req.repo,
                                                                       default_branch))
                         /\ pc' = "ensureBranchExists: default"
                         /\ UNCHANGED <<run, refs>>
            [] pc = "ensureBranchExists: default" ->
                 \E status \in BranchStatuses(default_branch) :
                    IF ~ok(status)
                    THEN Throw(status, "Error loading branch") /\ UNCHANGED refs
                    ELSE /\ log' = Append(Answer(status),
                                          createBranchRequest(req.owner, req.repo, run.target,
                                                              BranchCommitInfo(default_branch).sha))
                         /\ pc' = "ensureBranchExists: createRef"
                         /\ UNCHANGED <<run, refs>>
            [] pc = "ensureBranchExists: createRef" ->
                 \E status \in CreateRefStatuses(req.body) :
                    IF ~ok(status)
                    THEN Throw(status, "Failed to create branch") /\ UNCHANGED refs
                    ELSE /\ log' = Answer(status)
                         /\ refs' = [refs EXCEPT ![run.target] = req.body.sha]
                         /\ pc' = "stage"
                         /\ UNCHANGED run
            [] OTHER -> FALSE
    /\ UNCHANGED <<session, commits, trees, refs0, runs, cacheVars>>

\* the names the panel offers for the branch of the pull request
BranchInputs == Branches \cup {""}

\* the panel's signal defaultBranch: createSignal("main"), which onMount sets to the
\* default branch of the repository once its fetch has succeeded.  A specification
\* that leaves the start-up out has the signal as the fetch sets it.
defaultBranchSignal ==
    IF "defaultBranch" \in DOMAIN session THEN session.defaultBranch ELSE default_branch

\* the panel is mounted: github.fetchRepoInfo() is answered; a success sets the
\* signal, a failure is caught and leaves it
onMount ==
    /\ pc = "idle"
    /\ log = << >>
    /\ "defaultBranch" \in DOMAIN session
    /\ LET req == fetchRepoInfoRequest(session.signals.owner, session.signals.repo)
       IN \E status \in RepoInfoStatuses(req) :
            /\ log' = <<[req EXCEPT !.status = status]>>
            /\ session' = IF ok(status)
                          THEN [session EXCEPT !.defaultBranch = default_branch]
                          ELSE session
    /\ UNCHANGED <<refs, commits, trees, pc, run, refs0, runs, cacheVars>>

\* handleCreatePullRequest returns at once, having set the status
Returns(status) ==
    /\ pc' = "done"
    /\ run' = [status |-> status, missing |-> << >>, error |-> NoError]
    /\ UNCHANGED log

\* handleCreatePullRequest with the files `ks` selected and `inputBranchName`
\* entered, up to the first fetch of ensureBranchExists
handleCreatePullRequest(ks, inputBranchName) ==
    /\ pc \in {"idle", "done", "failed", "staged"}
    /\ runs < MaxRuns
    /\ runs' = runs + 1
    /\ refs0' = refs
    /\ IF Len(ks) = 0 THEN Returns("No files selected.")
       ELSE IF inputBranchName = "" THEN Returns("Please enter a branch name.")
       ELSE IF inputBranchName = defaultBranchSignal
       THEN Returns("Please choose a branch other than")
       ELSE /\ run' = [status |-> "Creating pull request...", missing |-> << >>,
                       error |-> NoError, sourceBranch |-> session.signals.branch,
                       target |-> inputBranchName, keys |-> ks, i |-> 1,
                       first |-> Len(log) + 1, db0 |-> db]
            /\ ensureBranchExists(inputBranchName)
    /\ UNCHANGED <<session, refs, commits, trees, cacheVars>>

\* one turn of the loop over the keys, up to its fetch if it has one: the value is
\* loaded from the source branch's namespace and saved to the target's; when the
\* cache has none, the file is fetched from the source branch
stageKey ==
    /\ pc = "stage"
    /\ run.i <= Len(run.keys)
    /\ LET key == run.keys[run.i]
           value == loadFrom("markdown", session.signals.repo, run.sourceBranch, key)
       IN IF value = Absent
          THEN /\ log' = Append(log, Request("contents", session.signals.owner,
                                             session.signals.repo, run.sourceBranch,
                                             [path |-> key]))
               /\ pc' = "stage: fetchFileFromBranch"
               /\ last' = Call("loadFrom", "markdown", key, NoError, Absent)
               /\ dbOpen' = TRUE
               /\ UNCHANGED <<run, activeRepo, db, savedUnder>>
          ELSE /\ saveTo("markdown", session.signals.repo, run.target, key, value)
               /\ run' = [run EXCEPT !.i = @ + 1]
               /\ UNCHANGED <<pc, log>>
    /\ UNCHANGED <<session, refs, commits, trees, refs0, runs>>

\* the response to the fetch of a file arrives: its content is saved to the target's
\* namespace; a failure is caught and the key is missing
fetchFileFromBranchReturns ==
    /\ pc = "stage: fetchFileFromBranch"
    /\ pc' = "stage"
    /\ LET req == log[Len(log)]
           key == run.keys[run.i]
       IN \E status \in ContentsStatuses(req) :
            /\ log' = Answer(status)
            /\ IF ~ok(status)
               THEN /\ run' = [run EXCEPT !.missing = Append(@, key), !.i = @ + 1]
                    /\ UNCHANGED cacheVars
               ELSE /\ saveTo("markdown", session.signals.repo, run.target, key,
                              FileAt(commits[refs[req.branch]].tree, key))
                    /\ run' = [run EXCEPT !.i = @ + 1]
    /\ UNCHANGED <<session, refs, commits, trees, refs0, runs>>

\* the end of the loop without the check of `missing`: the handler goes on
stagingEndsUnchecked ==
    /\ pc = "stage"
    /\ run.i > Len(run.keys)
    /\ pc' = "staged"
    /\ session' = [session EXCEPT !.signals.branch = run.target]
    /\ UNCHANGED <<run, refs, commits, trees, log, refs0, runs, cacheVars>>

\* after the loop: with keys missing the handler reports them and returns; with none
\* it makes the target the current branch, commitMultipleFromDatabase being next
stagingEnds ==
    /\ pc = "stage"
    /\ run.i > Len(run.keys)
    /\ IF Len(run.missing) /= 0
       THEN /\ pc' = "done"
            /\ run' = [run EXCEPT !.status = MissingFilesError]
            /\ UNCHANGED session
       ELSE /\ pc' = "staged"
            /\ session' = [session EXCEPT !.signals.branch = run.target]
            /\ UNCHANGED run
    /\ UNCHANGED <<refs, commits, trees, log, refs0, runs, cacheVars>>

\* the handler after setBranch: commitMultipleFromDatabase(inputCommitMsg, keys,
\* "markdown") up to its throw, which the handler's catch reports, or to the first
\* fetch of commitFiles; the handler's own state is kept in `workflow`
workflowCommits ==
    /\ pc = "staged"
    /\ LET files == loadMultiple("markdown", run.keys)
           foundKeys == {files[i][1] : i \in 1..Len(files)}
           missing == SelectSeq(run.keys, LAMBDA k : k \notin foundKeys)
       IN /\ last' = Call("loadMultiple", "markdown", run.keys, NoError, files)
          /\ dbOpen' = TRUE
          /\ IF Len(missing) /= 0
             THEN /\ run' = [run EXCEPT !.status = "Failed to create pull request",
                                        !.error = MissingFilesError]
                  /\ pc' = "failed"
                  /\ UNCHANGED log
             ELSE /\ \E message \in Messages :
                       run' = [owner |-> session.owner, repo |-> session.repo,
                               branch |-> session.branch, message |-> message,
                               files |-> [i \in 1..Len(files) |->
                                             <<files[i][1], Content(files[i][2])>>],
                               default_branch |-> None, baseCommit |-> None,
                               treeCommit |-> None, newCommit |-> None,
                               error |-> NoError, workflow |-> run]
                  /\ log' = Append(log, fetchRepoInfoRequest(session.owner, session.repo))
                  /\ pc' = "fetchRepoInfo"
    /\ UNCHANGED <<activeRepo, db, savedUnder, session, refs, commits, trees, refs0, runs>>

\* POST /repos/{owner}/{repo}/pulls: a pull request needs a head that exists and has
\* commits its base has not
PullStatuses(req) ==
    (IF /\ Found(req)
        /\ req.body.head \in Branches /\ req.body.base \in Branches
        /\ refs[req.body.head] /= NoRef /\ refs[req.body.base] /= NoRef
        /\ refs[req.body.head] \notin Ancestors(commits, refs[req.body.base])
     THEN {201} ELSE {422}) \cup {500}

\* the handler after the commit: github.fetchRepoInfo()
workflowFetchesRepoInfo ==
    /\ pc = "done"
    /\ "workflow" \in DOMAIN run
    /\ log' = Append(log, fetchRepoInfoRequest(session.signals.owner,
                                              session.signals.repo))
    /\ pc' = "workflow: fetchRepoInfo"
    /\ UNCHANGED <<run, session, refs, commits, trees, refs0, runs, cacheVars>>

\* the handler's last two requests are answered: after the repository info,
\* createPullRequest(owner, repo, inputCommitMsg, getBranch(), default_branch);
\* after the pull request, the status is set
workflowReturns ==
    /\ LET req == log[Len(log)]
       IN CASE pc = "workflow: fetchRepoInfo" ->
                 \E status \in RepoInfoStatuses(req) :
                    IF ~ok(status)
                    THEN Throw(status, "Failed to load repo info")
                    ELSE /\ log' = Append(Answer(status),
                                          Request("pulls", session.signals.owner,
                                                  session.signals.repo, "",
                                                  [title |-> run.message,
                                                   head |-> session.signals.branch,
                                                   base |-> default_branch]))
                         /\ pc' = "workflow: createPullRequest"
                         /\ UNCHANGED run
            [] pc = "workflow: createPullRequest" ->
                 \E status \in PullStatuses(req) :
                    IF ~ok(status)
                    THEN Throw(status, "Failed to create pull request")
                    ELSE /\ log' = Answer(status)
                         /\ pc' = "done"
                         /\ run' = [run.workflow EXCEPT !.status = "Pull request created"]
            [] OTHER -> FALSE
    /\ UNCHANGED <<session, refs, commits, trees, refs0, runs, cacheVars>>

HandleCreatePullRequest ==
    \E ks \in KeyLists, inputBranchName \in BranchInputs :
        handleCreatePullRequest(ks, inputBranchName)

\* the state of the singleton `github` and no remote: the cache specification
SyncIdle ==
    /\ session = GitHubInteraction("", "", "", "")
    /\ refs = [b \in Branches |-> NoRef]
    /\ commits = << >>
    /\ trees = << >>
    /\ pc = "idle"
    /\ run = << >>
    /\ log = << >>
    /\ refs0 = refs
    /\ runs = 0

\* new GitHubInteraction(repo, owner, auth, branch), and a remote repository whose
\* default branch is at InitCommit and whose other branch exists or not
SyncInit ==
    /\ CacheInit
    /\ \E branch \in Branches :
         session = GitHubInteraction("repo", "owner", "token", branch)
    /\ \E tip \in {NoRef, InitCommit} :
         refs = [b \in Branches |-> IF b = defaultBranch THEN InitCommit ELSE tip]
    /\ commits = (InitCommit :> [tree |-> InitTree, parents |-> << >>, message |-> "init"])
    /\ trees = (InitTree :> [base |-> None, entries |-> << >>])
    /\ pc = "idle"
    /\ run = << >>
    /\ log = << >>
    /\ refs0 = refs
    /\ runs = 0

SyncNext ==
    \/ CommitFiles
    \/ fetchRepoInfoReturns
    \/ fetchBranchCommitInfoReturns
    \/ createBranchReturns
    \/ createTreeWithFilesReturns
    \/ createCommitFromTreeReturns
    \/ updateBranchRefReturns

Init == CacheInit /\ SyncIdle

Next == CacheNext

Spec == Init /\ [][Next]_vars

SyncSpec == SyncInit /\ [][SyncNext]_vars

\* the singleton as the module creates it, before a remote whose default branch is at
\* InitCommit and whose other branch exists or not
SessionInit ==
    /\ CacheInit
    /\ session = GitHubInteraction("", "", "", "")
    /\ \E tip \in {NoRef, InitCommit} :
         refs = [b \in Branches |-> IF b = defaultBranch THEN InitCommit ELSE tip]
    /\ commits = (InitCommit :> [tree |-> InitTree, parents |-> << >>, message |-> "init"])
    /\ trees = (InitTree :> [base |-> None, entries |-> << >>])
    /\ pc = "idle"
    /\ run = << >>
    /\ log = << >>
    /\ refs0 = refs
    /\ runs = 0

SessionNext ==
    \/ SetOwner
    \/ SetRepo
    \/ SetBranch
    \/ SetAuth
    \/ CommitFiles
    \/ fetchRepoInfoReturns
    \/ fetchRepoInfo
    \/ fetchRepoInfoResolves
    \/ fetchRemoteBranches
    \/ fetchRemoteBranchesResolves
    \/ fetchFileFromBranch
    \/ fetchFileFromBranchResolves

SessionSpec == SessionInit /\ [][SessionNext]_vars

\* the panel's commits: the repository of the page is bound, the editor's documents
\* are saved to "markdown" (saveEditorContentToDatabase), documents are committed
OpenRepository ==
    /\ setActiveRepo(<<"a">>)
    /\ UNCHANGED syncVars
SaveEditorContent ==
    /\ \E key \in Keys : save("markdown", key, "v1")
    /\ UNCHANGED syncVars

\* the remote of the panel's commits: the default branch alone exists
CommitInit ==
    /\ SyncInit
    /\ refs["feature"] = NoRef

CommitNext ==
    \/ OpenRepository
    \/ SaveEditorContent
    \/ CommitMultipleFromDatabase
    \/ (\E message \in Messages, key \in Keys, store \in StoreInputs :
            commitFromDatabase(message, key, store))
    \/ (\E message \in Messages, store \in StoreInputs :
            commitAllFromDatabase(message, store))
    \/ fetchRepoInfoReturns
    \/ fetchBranchCommitInfoReturns
    \/ createBranchReturns
    \/ createTreeWithFilesReturns
    \/ createCommitFromTreeReturns
    \/ updateBranchRefReturns

CommitSpec == CommitInit /\ [][CommitNext]_vars

\* the value the cache holds for a document of `branch` when the handler starts, and
\* the content of the one document of the remote
CachedValue(branch) == IF branch = defaultBranch THEN "v1" ELSE "v2"
RemoteFile == [path |-> <<"k">>, content |-> "remote"]

\* the panel of a session whose values were given to the constructor, the cache bound
\* to its repository and holding documents staged or saved earlier, before a remote
\* whose default branch holds one document
StagingInit ==
    /\ \E branch \in Branches :
         session = GitHubInteraction("repo", "owner", "token", branch)
    /\ activeRepo = <<"repo">>
    /\ dbOpen = FALSE
    /\ \E slots \in SUBSET (Branches \X Keys) :
         /\ Cardinality(slots) <= MaxEntries
         /\ LET Slot(f) == CHOOSE s \in slots : makeBranchKey("repo", s[1], s[2]) = f
                F == {makeBranchKey("repo", s[1], s[2]) : s \in slots}
            IN /\ db = [EmptyDb EXCEPT !["markdown"] = [f \in F |-> CachedValue(Slot(f)[1])]]
               /\ savedUnder = [EmptyDb EXCEPT !["markdown"] = [f \in F |-> <<"repo">>]]
    /\ last = Call("restart", "", EmptyStr, NoError, Void)
    /\ \E tip \in {NoRef, InitCommit} :
         refs = [b \in Branches |-> IF b = defaultBranch THEN InitCommit ELSE tip]
    /\ commits = (InitCommit :> [tree |-> InitTree, parents |-> << >>, message |-> "init"])
    /\ trees = (InitTree :> [base |-> None, entries |-> <<RemoteFile>>])
    /\ pc = "idle"
    /\ run = << >>
    /\ log = << >>
    /\ refs0 = refs
    /\ runs = 0

StagingNext ==
    \/ HandleCreatePullRequest
    \/ ensureBranchExistsReturns
    \/ stageKey
    \/ fetchFileFromBranchReturns
    \/ stagingEnds

StagingSpec == StagingInit /\ [][StagingNext]_vars

\* the whole of handleCreatePullRequest: the editor's documents are saved, the files
\* are staged, committed with the requests of commitFiles, and the pull request made.
\* The branch of the commit is the default branch or the target that
\* ensureBranchExists has just found or created, so commitFiles creates no branch.
WorkflowNext ==
    \/ (pc = "idle" /\ SaveEditorContent)
    \/ (pc /= "staged" /\ HandleCreatePullRequest)
    \/ ensureBranchExistsReturns
    \/ stageKey
    \/ fetchFileFromBranchReturns
    \/ stagingEnds
    \/ workflowCommits
    \/ fetchRepoInfoReturns
    \/ fetchBranchCommitInfoReturns
    \/ createTreeWithFilesReturns
    \/ createCommitFromTreeReturns
    \/ updateBranchRefReturns
    \/ workflowFetchesRepoInfo
    \/ workflowReturns

WorkflowSpec == StagingInit /\ [][WorkflowNext]_vars

\* loadAll of the bound cache while save, delete and clear run between its awaits
LoadAllNext ==
    \/ OpenRepository
    \/ Save
    \/ Delete
    \/ Clear
    \/ loadAllLists
    \/ loadAllGets
    \/ loadAllReturns

LoadAllSpec == Init /\ [][LoadAllNext]_vars

\* interleaved saves: the repository is bound, documents are saved, then calls of
\* save on "markdown" run with their awaits interleaved, and the entries are loaded
SaveRaceNext ==
    \/ OpenRepository
    \/ (pc = "idle" /\ SaveEditorContent)
    \/ (\E key \in Keys, value \in Values : saveCalled("markdown", key, value))
    \/ saveResumes
    \/ savePuts
    \/ saveReturns
    \/ (\E key \in Keys : load("markdown", key) /\ UNCHANGED syncVars)

SaveRaceSpec == Init /\ [][SaveRaceNext]_vars

\* fetchFilesFromBranch and the fetches it leaves behind
FetchFilesNext ==
    \/ fetchFilesFromBranch
    \/ fetchFiles
    \/ fetchFilesFromBranchCallbackResumes

FetchFilesSpec == StagingInit /\ [][FetchFilesNext]_vars

(***************************************************************************)
(* Properties of the cache (specification Spec).                           *)
(***************************************************************************)
ReadOps == {"load", "keys", "loadAll"}
StoreOps == {"save", "load", "loadAll", "keys", "delete", "clear", "has"}

\* the repository under which the entry behind logical key `key` of the last call was saved
SavedUnderOf(key) == savedUnder[last.store][makePrefixedKey(last.repo, key)]

\* C1: no load, keys or loadAll executed while bound to one repository returns a key
\* or value of an entry that was saved while another repository was bound.
C1_ReadsScoped ==
    (last.op \in ReadOps /\ last.err = NoError) =>
        CASE last.op = "load" ->
                last.result /= Absent => SavedUnderOf(last.key) = last.repo
          [] last.op = "keys" ->
                \A i \in 1..Len(last.result) : SavedUnderOf(last.result[i]) = last.repo
          [] last.op = "loadAll" ->
                \A i \in 1..Len(last.result) : SavedUnderOf(last.result[i][1]) = last.repo

\* C2: a clear or delete executed while bound to one repository leaves every entry
\* saved under another repository unchanged, in every collection.
C2_WritesScoped ==
    [][(last'.op \in {"clear", "delete"} /\ last'.err = NoError) =>
        \A s \in configStores : \A f \in DOMAIN db[s] :
            savedUnder[s][f] /= activeRepo =>
                f \in DOMAIN db'[s] /\ db'[s][f] = db[s][f]]_vars

\* C3 as stated: every cache read/write operation invoked while no repository is bound
\* fails with the not-bound error and leaves the store and the binding unchanged.
C3_UnboundAlwaysNotBound ==
    [][(last'.op \in StoreOps /\ activeRepo = EmptyStr /\ last' /= last) =>
        /\ last'.err = NotBoundError
        /\ UNCHANGED <<activeRepo, db>>]_vars

\* C3 as amended: invoked while no repository is bound, every cache read/write
\* operation fails and leaves the store and the binding unchanged; the error is the
\* not-bound error when the collection is one of the fixed set, and the
\* invalid-collection error otherwise.
C3_UseBeforeBinding ==
    [][(last'.op \in StoreOps /\ activeRepo = EmptyStr /\ last' /= last) =>
        /\ last'.err = IF last'.store \in configStores
                       THEN NotBoundError ELSE InvalidStoreError
        /\ UNCHANGED <<activeRepo, dbOpen, db>>]_vars

\* a call on a valid collection failed as not bound while the store holds entries
C3_Witness ==
    /\ last.op = "clear"
    /\ last.store \in configStores
    /\ last.err = NotBoundError
    /\ activeRepo = EmptyStr
    /\ DOMAIN db[last.store] /= {}

\* C4: setActiveRepo called while a repository is bound fails, whatever the new value,
\* and leaves the binding unchanged; the binding changes only from unbound to a value
\* (setActiveRepo) or from a value to unbound (destroy, or a new module instance).
C4_RebindingGuard ==
    [][/\ (last'.op = "setActiveRepo" /\ activeRepo /= EmptyStr /\ last' /= last) =>
            last'.err = AlreadyBoundError /\ activeRepo' = activeRepo
       /\ activeRepo' /= activeRepo =>
            \/ activeRepo = EmptyStr /\ last'.op = "setActiveRepo" /\ last'.err = NoError
            \/ activeRepo' = EmptyStr /\ last'.op \in {"destroy", "restart"}]_vars

\* setActiveRepo with the value already bound was refused
C4_Witness ==
    /\ last.op = "setActiveRepo"
    /\ last.err = AlreadyBoundError
    /\ last.key = activeRepo
    /\ activeRepo /= EmptyStr

\* C5: a load of (c, k) that follows save(c, k, v) returns v; the reads that may come
\* between the two leave the store as it is.
C5_RoundTrip ==
    [][/\ (/\ last.op = "save" /\ last.err = NoError
           /\ last'.op = "load" /\ last'.store = last.store /\ last'.key = last.key) =>
            last'.err = NoError /\ last'.result = last.result
       /\ last'.op \in {"load", "loadAll", "keys", "has"} =>
            UNCHANGED <<activeRepo, db>>]_vars

\* a load returned the value saved under its key and binding, beside another entry
C5_Witness ==
    /\ last.op = "load"
    /\ last.err = NoError
    /\ last.result = "v2"
    /\ SavedUnderOf(last.key) = last.repo
    /\ Cardinality(Entries(db)) = 2

\* C6: in every binding state, a cache operation on a collection outside the fixed set
\* fails with the invalid-collection error and changes neither store nor binding.
C6_CollectionValidation ==
    [][(last'.op \in StoreOps /\ last'.store \notin configStores /\ last' /= last) =>
        /\ last'.err = InvalidStoreError
        /\ UNCHANGED <<activeRepo, dbOpen, db>>]_vars

\* a save on an unknown collection was refused while bound, the store holding entries
C6_Witness ==
    /\ last.op = "save"
    /\ last.store \notin configStores
    /\ last.err = InvalidStoreError
    /\ activeRepo /= EmptyStr
    /\ Entries(db) /= {}

(***************************************************************************)
(* Properties of commitFiles (specification SyncSpec).                     *)
(***************************************************************************)
Kinds == [i \in 1..Len(log) |-> log[i].kind]
IsPrefix(p, q) == Len(p) <= Len(q) /\ SubSeq(q, 1, Len(p)) = p

OrderBranchExists == <<"repoInfo", "branch", "createTree", "createCommit", "updateRef">>
OrderBranchMissing ==
    <<"repoInfo", "branch", "createRef", "branch", "createTree", "createCommit", "updateRef">>

HasRequest(kind) == \E i \in 1..Len(log) : log[i].kind = kind

\* C7: the requests of a run are issued in the order repository info, branch lookup,
\* (ref-create and second lookup, only after a not-found first lookup), tree creation,
\* commit creation, ref update; a request is issued only when every earlier one has
\* been answered, so at most one is in flight.
C7_ProtocolOrder ==
    /\ \/ IsPrefix(Kinds, OrderBranchExists)
       \/ IsPrefix(Kinds, OrderBranchMissing)
    /\ HasRequest("createRef") => log[2].status = 404
    /\ \A i \in 1..Len(log) : log[i].status = Pending => i = Len(log)
    /\ Cardinality(InFlight) <= 1

\* a run went through all five requests of an existing branch
C7_Witness ==
    /\ pc = "done"
    /\ Kinds = OrderBranchExists
    /\ InFlight = {}

\* C8: when the target branch does not exist, the run issues a ref-create for
\* refs/heads/<branch> whose sha is the default branch's tip commit X, and a run that
\* completes after it built its tree on the tree of X, its commit on parent X, and moved
\* the branch to the new commit.
C8_BranchCreatedFromDefaultTip ==
    LET X == refs0[defaultBranch]
    IN /\ (Len(log) >= 2 /\ log[2].status = 404 /\ pc /= "failed") => HasRequest("createRef")
       /\ \A i \in 1..Len(log) :
            log[i].kind = "createRef" =>
                /\ log[i].body.ref = <<"refs", "heads", run.branch>>
                /\ log[i].body.sha = X
       /\ (pc = "done" /\ HasRequest("createRef")) =>
            /\ Kinds = OrderBranchMissing
            /\ log[5].body.base_tree = commits[X].tree
            /\ log[6].body.parents = <<X>>
            /\ log[7].body.sha = run.newCommit.sha

RefWrites == {"createRef", "updateRef"}

\* C9 as stated: the final ref update is the only request of a run that creates or
\* moves a ref; every request before it only reads or creates unreferenced objects,
\* and the refs are unchanged until it.
C9_OnlyRefUpdateWritesRefs ==
    /\ \A i \in 1..Len(log) :
        log[i].kind \in RefWrites => log[i].kind = "updateRef" /\ i = Len(log)
    /\ refs /= refs0 => pc = "done"

\* C9 as amended: the requests of a run that create or move a ref are the ref-create
\* issued right after a not-found first branch lookup and the final ref update; every
\* other request reads or creates unreferenced objects; the refs change only by a
\* successful answer to one of those two requests, and only the run's branch changes.
C9_RefWritesOfRun ==
    /\ \A i \in 1..Len(log) :
        /\ log[i].kind = "createRef" =>
            i = 3 /\ log[2].kind = "branch" /\ log[2].status = 404
        /\ log[i].kind = "updateRef" => i = Len(log)
    /\ refs /= refs0 =>
        /\ \E i \in 1..Len(log) : log[i].kind \in RefWrites /\ ok(log[i].status)
        /\ \A b \in Branches \ {run.branch} : refs[b] = refs0[b]
    /\ (~HasRequest("createRef") /\ refs /= refs0) => pc = "done"

\* a ref-create was issued after a not-found first lookup and answered, and no ref
\* has changed
C9_Witness ==
    /\ Len(log) = 3
    /\ log[2].status = 404
    /\ log[3].kind = "createRef"
    /\ log[3].status /= Pending
    /\ refs = refs0

\* a request before the ref update got a failure response (a not-found answer to the
\* first branch lookup is not one)
FailedBeforeRefUpdate ==
    \E i \in 1..Len(log) :
        /\ log[i].kind \in {"repoInfo", "branch", "createTree", "createCommit"}
        /\ log[i].status /= Pending
        /\ ~ok(log[i].status)
        /\ ~(i = 2 /\ log[i].status = 404)

\* C10: when the repository-info, branch-lookup, tree-creation or commit-creation
\* request of a run fails, the run raises an error, issues no ref update, and the
\* target branch ref is what it was when the run started.
C10_FailureBeforeRefUpdate ==
    FailedBeforeRefUpdate =>
        /\ pc = "failed"
        /\ run.error /= NoError
        /\ ~HasRequest("updateRef")
        /\ refs[run.branch] = refs0[run.branch]

\* the commit creation failed after the tree had been created
C10_Witness ==
    /\ pc = "failed"
    /\ log[Len(log)].kind = "createCommit"
    /\ log[Len(log)].status = 500
    /\ DOMAIN trees /= {InitTree}

(***************************************************************************)
(* Properties of commitMultipleFromDatabase (specification CommitSpec).    *)
(***************************************************************************)
\* C11: a call commitMultipleFromDatabase(message, keys, collection) on a bound cache
\* and a valid collection with at least one key absent from the cache fails with the
\* missing-files error whose payload is the absent keys, every one of them, in the
\* order of the request, joined by ", ", and no cached key; a call that fails has
\* issued no remote request and changed nothing on the remote; a call with every key
\* cached enters commitFiles with the cached (key, value) pairs.
C11_FailFastMissingKeys ==
    [][(/\ last'.op = "loadMultiple"
        /\ (Len(log') = 0 \/ (Len(log') = 1 /\ log'[1].status = Pending)))
       => LET store == last'.store
              ks == last'.key
              cached(k) == makePrefixedKey(activeRepo, k) \in DOMAIN db[store]
              absent == SelectSeq(ks, LAMBDA k : ~cached(k))
          IN /\ pc' = "failed" => Len(log') = 0 /\ UNCHANGED <<refs, commits, trees>>
             /\ (isInitialised /\ store \in configStores) =>
                    IF Len(absent) > 0
                    THEN /\ pc' = "failed"
                         /\ run'.error = MissingFilesError
                         /\ run'.keys = join(absent, <<",", " ">>)
                    ELSE /\ pc' = "fetchRepoInfo"
                         /\ run'.files =
                                [i \in 1..Len(ks) |->
                                    <<ks[i], Content(db[store][makePrefixedKey(activeRepo, ks[i])])>>]]_vars

\* a call for two keys, the first cached and the second not, was rejected with the
\* second key as its payload and without a request
C11_Witness ==
    /\ pc = "failed"
    /\ Len(log) = 0
    /\ last.op = "loadMultiple"
    /\ last.err = NoError
    /\ Len(last.key) = 2
    /\ Len(last.result) = 1
    /\ last.result[1][1] = last.key[1]
    /\ run.error = MissingFilesError
    /\ run.keys = last.key[2]

(***************************************************************************)
(* Properties of the session (specification SessionSpec).                  *)
(***************************************************************************)
SessionFields == {"owner", "repo", "branch", "auth"}
AtRest == {"idle", "done", "failed"}
SessionNotReadyError == "session not ready"

\* a value of the session is empty: one set through the setters, or one of the fields
\* the requests are built from
NotReady == \E f \in SessionFields : session.signals[f] = "" \/ session[f] = ""

\* C12: commitFiles, fetchRepoInfo, fetchRemoteBranches or fetchFileFromBranch invoked
\* while any of owner, repository, branch or credential is empty fails with the
\* session-not-ready error and issues no remote request.
C12_SessionReadiness ==
    [][(NotReady /\ pc \in AtRest /\ pc' /= pc) =>
        /\ pc' = "failed"
        /\ Len(log') = 0
        /\ run'.error = SessionNotReadyError]_vars

\* C13: the requests of a commitFiles run use the owner, repository, branch and
\* credential most recently set through setOwner, setRepo, setBranch and setAuth before
\* the call: the run reads them when it starts, and every request of the run names
\* that owner and repository, carries that credential, and names that branch when it
\* names one.
C13_SessionValuesHonoured ==
    [][/\ runs' = runs + 1 =>
            /\ run'.owner = session.signals.owner
            /\ run'.repo = session.signals.repo
            /\ run'.branch = session.signals.branch
            /\ log'[1].headers.Authorization = <<"token", session.signals.auth>>
       /\ runs > 0 =>
            \A i \in 1..Len(log) :
                /\ log[i].owner = run.owner /\ log[i].repo = run.repo
                /\ log[i].kind \in {"branch", "updateRef"} => log[i].branch = run.branch]_vars

(***************************************************************************)
(* C14: ensureBranchExists and the ref-create requests.                    *)
(***************************************************************************)
\* a run of handleCreatePullRequest that reached ensureBranchExists
InCall == "first" \in DOMAIN run
\* the ref-create requests among the requests at the positions I
RefCreates(I) == {i \in I : log[i].kind = "createRef"}
EnsurePositions ==
    {"ensureBranchExists: lookup", "ensureBranchExists: repoInfo",
     "ensureBranchExists: default", "ensureBranchExists: createRef"}
FromDefaultTip(i) ==
    /\ log[i].body.ref = <<"refs", "heads", run.target>>
    /\ log[i].body.sha = refs0[defaultBranch]

C15_StagingResolutionOrder ==
    [][(pc \in {"stage", "stage: fetchFileFromBranch"} /\ run'.i = run.i + 1) =>
          LET key == run.keys[run.i]
              repo == session.signals.repo
              target == loadFrom("markdown", repo, run.target, key)
              source == loadFrom("markdown", repo, run.sourceBranch, key)
              answer == log'[Len(log')]
              fetched == IF pc = "stage: fetchFileFromBranch" /\ ok(answer.status)
                         THEN FileAt(commits[refs[answer.branch]].tree, key)
                         ELSE Absent
              used == IF target /= Absent THEN target
                      ELSE IF source /= Absent THEN source ELSE fetched
          IN IF used = Absent
             THEN run'.missing = Append(run.missing, key) /\ db' = db
             ELSE /\ run'.missing = run.missing
                  /\ Get(db'["markdown"], makeBranchKey(repo, run.target, key)) = used
      ]_vars

\* C16: when the handler has returned with keys missing, the cache is as it was when
\* the handler started: nothing was written under the target branch's namespace.
C16_NoPartialStaging ==
    (InCall /\ pc = "done" /\ Len(run.missing) /= 0) => db = run.db0

(***************************************************************************)
(* C17: destroy and the binding.                                           *)
(***************************************************************************)
\* C17: destroy never fails, bound or not; with preserveRepo false it leaves the cache
\* unbound, with preserveRepo true it leaves the binding it ran under (none when there
\* was none); a setActiveRepo in the unbound state succeeds and binds its argument.
C17_TeardownAndBinding ==
    /\ last.op = "destroy" =>
          /\ last.err = NoError
          /\ activeRepo = IF last.key = Preserve(TRUE) THEN last.repo ELSE EmptyStr
          /\ ~dbOpen
    /\ (last.op = "setActiveRepo" /\ last.repo = EmptyStr) =>
          last.err = NoError /\ activeRepo = last.key

\* destroy() has unbound a bound cache
C17_Witness ==
    /\ last.op = "destroy"
    /\ last.key = Preserve(FALSE)
    /\ last.repo /= EmptyStr
    /\ activeRepo = EmptyStr

(***************************************************************************)
(* C18, C20: keys and load against what was saved under the binding.       *)
(***************************************************************************)
\* the logical keys saved to `store` under `repo` and not deleted or cleared since
SavedKeys(store, repo) ==
    {k \in Keys : /\ makePrefixedKey(repo, k) \in DOMAIN savedUnder[store]
                  /\ savedUnder[store][makePrefixedKey(repo, k)] = repo}

\* C18: keys(collection) returns, each once, exactly the logical keys that were saved
\* to that collection under the bound repository and not deleted or cleared since.
C18_KeysExact ==
    (last.op = "keys" /\ last.err = NoError) =>
        /\ Range(last.result) = SavedKeys(last.store, last.repo)
        /\ Len(last.result) = Cardinality(Range(last.result))

\* C20: while bound, load of a valid collection and of a key that is not saved under
\* the bound repository returns the absent result without an error and leaves the
\* store unchanged.
C20_LoadMissingKey ==
    [][(/\ last'.op = "load"
        /\ isInitialised
        /\ validateStore(last'.store)
        /\ last'.key \notin SavedKeys(last'.store, activeRepo)) =>
            /\ last'.err = NoError
            /\ last'.result = Absent
            /\ db' = db]_vars

(***************************************************************************)
(* C19: loadAll while delete, clear and save run between its awaits.       *)
(***************************************************************************)
\* C19: each turn of loadAll's loop adds the pair of the key listed when the key has a
\* value at that moment and adds nothing, and raises no error, when it has none;
\* loadAll returns, without an error, after the turn of the last key listed, the pairs
\* so collected, none of them with an absent value.
C19_LoadAllSkipsVanishedKeys ==
    [][/\ (pc = "loadAll: get" /\ run' /= run) =>
            LET key == run.allKeys[run.i]
                value == Get(db[run.store], makePrefixedKey(activeRepo, key))
            IN /\ pc' = "loadAll: get"
               /\ run'.i = run.i + 1
               /\ run'.results = IF value /= Absent
                                 THEN Append(run.results, <<key, value>>)
                                 ELSE run.results
       /\ (pc = "loadAll: get" /\ pc' /= pc) =>
            /\ pc' = "done"
            /\ run.i = Len(run.allKeys) + 1
            /\ last' = Call("loadAll", run.store, EmptyStr, NoError, run.results)
            /\ \A j \in 1..Len(run.results) : run.results[j][2] /= Absent
      ]_vars

\* loadAll has returned fewer pairs than it listed keys: a key lost its value between
\* the listing and its load
C19_Witness ==
    /\ pc = "done"
    /\ last.op = "loadAll"
    /\ last.err = NoError
    /\ Len(last.result) < Len(run.allKeys)

(***************************************************************************)
(* C21: fetchFilesFromBranch and its per-file fetches.                     *)
(***************************************************************************)
\* C21: when fetchFilesFromBranch has returned, no fetch it started is in flight,
\* none of them has failed (a failed fetch makes the call fail), and its result holds
\* the content of each requested path, in the order of the paths.
C21_FetchFilesComplete ==
    (pc = "done" /\ runs > 0) =>
        /\ \A i \in run.first..Len(log) : ok(log[i].status)
        /\ Len(run.files) = Len(run.filePaths)
        /\ \A j \in 1..Len(run.files) :
              run.files[j] = FileAt(commits[refs[run.branchName]].tree, run.filePaths[j])

(***************************************************************************)
(* C22..C26: the requests of a commitFiles run (specification SyncSpec).   *)
(***************************************************************************)
\* the positions in `log` of the requests of a kind
Of(kind) == {i \in 1..Len(log) : log[i].kind = kind}
\* the request at position i was answered with a failure; a not-found answer to the
\* first branch lookup is not one
Failure(i) ==
    /\ log[i].status /= Pending
    /\ ~ok(log[i].status)
    /\ ~(i = 2 /\ log[i].kind = "branch" /\ log[i].status = 404)

\* C22: in a run each of the repository-info, ref-create, tree-create, commit-create
\* and ref-update requests is issued at most once and the branch lookup at most
\* twice; a request answered with a failure is the last request of the run, which
\* has failed.
C22_NoAutomaticRetries ==
    /\ \A kind \in {"repoInfo", "createRef", "createTree", "createCommit", "updateRef"} :
          Cardinality(Of(kind)) <= 1
    /\ Cardinality(Of("branch")) <= 2
    /\ \A i \in 1..Len(log) : Failure(i) => i = Len(log) /\ pc = "failed"

\* the tree creation failed and the run ended there
C22_Witness ==
    /\ pc = "failed"
    /\ Kinds = <<"repoInfo", "branch", "createTree">>
    /\ log[3].status = 500

\* the tree created last on the remote
LastTree == TreeIds[Cardinality(DOMAIN trees) - 1]

\* C23: the tree-create request of a run has as base_tree the tree of the tip the
\* branch lookup of that run returned, which is the branch's tip on the remote; the
\* commit-create request references the tree created in that run and has that tip as
\* its sole parent.
C23_CommitShapeAndFreshness ==
    LET tip == IF refs0[run.branch] /= NoRef THEN refs0[run.branch] ELSE refs[run.branch]
    IN /\ \A i \in Of("createTree") :
             /\ run.baseCommit.sha = tip
             /\ log[i].body.base_tree = commits[tip].tree
       /\ \A i \in Of("createCommit") :
             /\ log[i].body.tree = LastTree
             /\ trees[LastTree].base = commits[tip].tree
             /\ log[i].body.parents = <<tip>>

\* C24: a branch lookup answered with a failure other than not-found ends the run at
\* once with the branch-loading error: it is the last request, so no ref-create,
\* tree-create, commit-create or ref update follows; a ref-create is issued only right
\* after a branch lookup answered not-found.
C24_LookupFailureIsNotMissing ==
    /\ \A i \in Of("branch") :
          (log[i].status \notin {Pending, 404} /\ ~ok(log[i].status)) =>
              /\ i = Len(log)
              /\ pc = "failed"
              /\ run.error = "Error loading branch"
              /\ Of("createRef") \cup Of("createTree") \cup Of("createCommit")
                    \cup Of("updateRef") = {}
    /\ \A j \in Of("createRef") :
          j > 1 /\ log[j - 1].kind = "branch" /\ log[j - 1].status = 404

\* the lookup of a branch the remote does not have was answered with a server error,
\* and the run failed without creating it
C24_Witness ==
    /\ pc = "failed"
    /\ Kinds = <<"repoInfo", "branch">>
    /\ log[2].status = 500
    /\ refs[run.branch] = NoRef

ResolvesExistingBranch ==
    (runs > 0 /\ refs0[run.branch] /= NoRef) =>
        /\ ~HasRequest("createRef")
        /\ Len(log) >= 2 => log[2].status /= 404
        /\ IsPrefix(Kinds, OrderBranchExists)
        /\ pc = "done" => Kinds = OrderBranchExists

AllReturned ==
    pc = "save" /\ \A c \in DOMAIN run.calls : run.calls[c].at \in {"returned", "threw"}

\* the calls that wrote (store, key), in the order of their store writes
WritesTo(store, key) ==
    SelectSeq(run.writes,
              LAMBDA c : run.calls[c].store = store /\ run.calls[c].key = key)

\* the entries no call of save has written are those present before the calls, unchanged
OtherEntriesUnchanged ==
    pc = "save" =>
        \A s \in configStores : \A f \in DOMAIN db[s] \cup DOMAIN run.db0[s] :
            (\A i \in DOMAIN run.writes :
                  ~(run.calls[run.writes[i]].store = s /\ run.calls[run.writes[i]].fullKey = f))
            => /\ f \in DOMAIN db[s] /\ f \in DOMAIN run.db0[s]
               /\ db[s][f] = run.db0[s][f]

\* C27: last write wins: once the calls of save have completed, load(collection, key)
\* returns the value of the call whose store write to (collection, key) happened
\* last, however the steps of the calls interleaved, never absent and never another
\* value; the entries under other keys are unchanged.
C27_LastWriteWins ==
    /\ [][(AllReturned /\ last'.op = "load" /\ last'.err = NoError) =>
             LET ws == WritesTo(last'.store, last'.key)
             IN ws /= << >> => last'.result = run.calls[ws[Len(ws)]].value]_vars
    /\ [] OtherEntriesUnchanged

\* two calls on one (collection, key) with different values ran interleaved, the call
\* made first wrote last, and load returned its value; another entry was there before
C27_Witness ==
    /\ AllReturned
    /\ Len(run.calls) = 2
    /\ run.writes = <<2, 1>>
    /\ run.calls[1].store = run.calls[2].store /\ run.calls[1].key = run.calls[2].key
    /\ run.calls[1].value /= run.calls[2].value
    /\ Entries(run.db0) /= {}
    /\ last.op = "load" /\ last.store = run.calls[1].store /\ last.key = run.calls[1].key
    /\ last.result = run.calls[1].value

\* C28: failure payload: the error raised for a request of a run that was answered
\* with a non-success status, a not-found branch lookup apart, carries both the status
\* code and the body of the response.
C28_FailurePayload ==
    \A i \in 1..Len(log) :
        (/\ log[i].status /= Pending /\ ~ok(log[i].status)
         /\ ~(log[i].kind = "branch" /\ log[i].status = 404)) =>
            /\ pc = "failed"
            /\ ErrorParts(run.error) = {"status", "body"}

\* the handler returned because keys were missing
StagingAborted ==
    pc = "done" /\ "status" \in DOMAIN run /\ run.status = MissingFilesError

\* key k of the running handler was not resolved: the cache had nothing for it in the
\* source branch's namespace and its fetch from the source branch failed
Unresolved(k) ==
    /\ makeBranchKey(session.signals.repo, run.sourceBranch, k)
           \notin DOMAIN run.db0["markdown"]
    /\ \E i \in run.first..Len(log) :
          /\ log[i].kind = "contents" /\ log[i].body.path = k
          /\ log[i].status /= Pending /\ ~ok(log[i].status)

\* C29: staging abort: a pull-request workflow with a key it could not resolve
\* reports every unresolved key, in the order of the selection, leaves the session
\* branch as it was, and issues no tree-create, commit-create, ref-update or
\* pull-request request: it goes on to the commit only with no key missing.
C29_StagingAbort ==
    /\ StagingAborted =>
          /\ run.missing /= << >>
          /\ run.missing = SelectSeq(run.keys, Unresolved)
          /\ session.signals.branch = run.sourceBranch
          /\ \A i \in run.first..Len(log) :
                log[i].kind \notin {"createTree", "createCommit", "updateRef", "pulls"}
    /\ (pc = "stage" /\ run.i > Len(run.keys)) => run.missing = SelectSeq(run.keys, Unresolved)
    /\ pc = "staged" => run.missing = << >>
    /\ "workflow" \in DOMAIN run => run.workflow.missing = << >>

\* a handler returned with two keys missing
C29_Witness ==
    /\ StagingAborted
    /\ Len(run.keys) = 2
    /\ run.missing = run.keys

\* C30: no swallowed remote errors in staging: when the fetch of a key from the source
\* branch is answered with a failure other than not-found, the pull-request workflow
\* ends with that failure as its error and the key is not reported as a missing file.
C30_NoSwallowedFetchErrors ==
    "first" \in DOMAIN run =>
        \A i \in run.first..Len(log) :
            (/\ log[i].kind = "contents"
             /\ log[i].status \notin {Pending, 404} /\ ~ok(log[i].status)) =>
                /\ pc = "failed"
                /\ run.error /= NoError
                /\ log[i].body.path \notin Range(run.missing)

(***************************************************************************)
(* C31..C39.                                                               *)
(***************************************************************************)
\* the contents of the paths of the running fetch on `branch`, in their order
ContentsOn(branch) ==
    [j \in 1..Len(run.filePaths) |->
        FileAt(commits[refs[branch]].tree, run.filePaths[j])]

\* the requests of the running fetch for files of `branch`
FetchesOn(branch) ==
    {i \in run.first..Len(log) : log[i].kind = "contents" /\ log[i].branch = branch}

\* C31: fetchFiles fallback: when fetchFiles has returned, every fetch it started has
\* been answered; with every fetch from the current branch successful the result is
\* the contents on the current branch, in the order of the paths; with one of them
\* failed, every path was fetched from the default branch and the result is the
\* contents there; a failed fetch whose fallback failed too makes the call fail.
C31_FetchFilesFallback ==
    (pc = "done" /\ "fallback" \in DOMAIN run) =>
        /\ \A i \in run.first..Len(log) : log[i].status /= Pending
        /\ IF \A i \in FetchesOn(run.branchName) : ok(log[i].status)
           THEN run.files = ContentsOn(run.branchName)
           ELSE /\ Cardinality(FetchesOn(defaultBranch)) >= Len(run.filePaths)
                /\ \A i \in FetchesOn(defaultBranch) : ok(log[i].status)
                /\ run.files = ContentsOn(defaultBranch)

\* the record of the running pull-request handler, also while its commit runs
Handler == IF "workflow" \in DOMAIN run THEN run.workflow ELSE run
\* a handler that went past its validation is running or has ended
InWorkflow == "workflow" \in DOMAIN run \/ "target" \in DOMAIN run
\* the positions in `log` of the handler's requests of a kind
HandlerRequests(kind) == {i \in Handler.first..Len(log) : log[i].kind = kind}

\* the request at position i was answered with a success
Succeeded(i) == log[i].status /= Pending /\ ok(log[i].status)

\* C32: pull-request workflow order: the handler's requests come in the order
\* ensureBranchExists, file fetches of the staging, the requests of the commit,
\* repository info, pull request; the session branch is the target from the end of
\* the staging on; the pull-request request is issued only after a ref update of the
\* target branch has succeeded, with the target as head and the default branch as
\* base; a failed request, the fetch of a file apart, is the last one.
C32_WorkflowOrder ==
    InWorkflow =>
        /\ \A i \in HandlerRequests("pulls") :
              /\ log[i].body.head = Handler.target
              /\ log[i].body.base = defaultBranch
              /\ \E j \in HandlerRequests("updateRef") :
                    j < i /\ log[j].branch = Handler.target /\ Succeeded(j)
              /\ log[i - 1].kind = "repoInfo" /\ Succeeded(i - 1)
        /\ \A i \in HandlerRequests("createTree") :
              /\ session.signals.branch = Handler.target
              /\ \A j \in HandlerRequests("contents") \cup HandlerRequests("createRef") : j < i
        /\ \A i \in HandlerRequests("contents") :
              \E j \in Handler.first..(i - 1) :
                  log[j].kind \in {"branch", "createRef"} /\ Succeeded(j)
        /\ \A i \in Handler.first..Len(log) :
              (/\ log[i].status /= Pending /\ ~ok(log[i].status)
               /\ log[i].kind /= "contents"
               /\ ~(log[i].kind = "branch" /\ log[i].status = 404)) =>
                  i = Len(log) /\ pc = "failed"

\* C33: teardown wipes everything and the cache stays usable: after destroy the
\* database holds no entry of any repository in any collection; after
\* destroy({preserveRepo: true}) of a bound cache the next save, load or keys on a
\* valid collection succeeds under the same binding and finds the store empty.
C33_TeardownWipesEverything ==
    /\ [](last.op = "destroy" => Entries(db) = {})
    /\ [][(/\ last.op = "destroy" /\ last.key = Preserve(TRUE) /\ last.repo /= EmptyStr
           /\ last'.op \in {"save", "load", "keys"} /\ validateStore(last'.store)) =>
              /\ last'.err = NoError
              /\ last'.repo = last.repo
              /\ last'.op = "load" => last'.result = Absent
              /\ last'.op = "keys" => last'.result = << >>
              /\ last'.op = "save" =>
                    Entries(db') = {<<last'.store, makePrefixedKey(last.repo, last'.key)>>}]_vars

\* a bound cache has just been torn down with its binding preserved
C33_Witness ==
    /\ last.op = "destroy" /\ last.key = Preserve(TRUE)
    /\ last.repo /= EmptyStr
    /\ activeRepo = last.repo
    /\ Entries(db) = {}

After(op) ==
    /\ last.op = op /\ last.err = NoError
    /\ last.store = last'.store /\ last.key = last'.key /\ last.repo = last'.repo

Suspended ==
    {"fetchRepoInfo", "fetchBranchCommitInfo", "fetchBranchCommitInfoAgain",
     "createBranch", "createTreeWithFiles", "createCommitFromTree", "updateBranchRef"}

Finished == {"done", "failed"}

\* the locals of a run, without the run suspended beside it
Locals(r) == [f \in DOMAIN r \ {"other"} |-> r[f]]

\* commitFiles(message, files) called while another run waits for a response: the
\* new run goes up to its first fetch
commitFilesConcurrently(message, files) ==
    /\ pc \in Suspended
    /\ "other" \notin DOMAIN run
    /\ runs < MaxRuns
    /\ runs' = runs + 1
    /\ run' = [owner |-> session.owner, repo |-> session.repo, branch |-> session.branch,
               message |-> message, files |-> files, default_branch |-> None,
               baseCommit |-> None, treeCommit |-> None, newCommit |-> None,
               error |-> NoError,
               other |-> [pc |-> pc, run |-> run, log |-> log]]
    /\ log' = <<fetchRepoInfoRequest(session.owner, session.repo)>>
    /\ pc' = "fetchRepoInfo"
    /\ UNCHANGED <<session, refs, commits, trees, refs0, cacheVars>>

\* the response that arrives next is the one the other run waits for
otherRunResumes ==
    /\ "other" \in DOMAIN run
    /\ run.other.pc \in Suspended
    /\ pc' = run.other.pc
    /\ log' = run.other.log
    /\ run' = ("other" :> [pc |-> pc, run |-> Locals(run), log |-> log]) @@ run.other.run
    /\ UNCHANGED <<session, refs, commits, trees, refs0, runs, cacheVars>>

ConcurrentNext ==
    \/ ("other" \in DOMAIN run => run.other.pc \in Finished) /\ CommitFiles
    \/ \E message \in Messages, files \in FileInputs :
          commitFilesConcurrently(message, files)
    \/ otherRunResumes
    \/ fetchRepoInfoReturns
    \/ fetchBranchCommitInfoReturns
    \/ createBranchReturns
    \/ createTreeWithFilesReturns
    \/ createCommitFromTreeReturns
    \/ updateBranchRefReturns

ConcurrentSpec == SyncInit /\ [][ConcurrentNext]_vars

\* two runs were interleaved and both have returned or thrown
BothFinished ==
    /\ "other" \in DOMAIN run
    /\ pc \in Finished
    /\ run.other.pc \in Finished

\* the run reported success and its commit is not reachable from the branch tip
Lost(position, r) ==
    /\ position = "done"
    /\ r.newCommit.sha \notin Ancestors(commits, refs[r.branch])

\* C36: no lost update between concurrent commits: no ref update is requested with
\* force; of two interleaved commitFiles runs on the same existing branch that read
\* the same branch tip, at most one reports success; and once both have finished,
\* the ancestry of the branch tip contains the commit of every run that reported
\* success.
C36_NoLostUpdate ==
    /\ \A i \in 1..Len(log) :
          log[i].kind = "updateRef" => DOMAIN log[i].body = {"sha"}
    /\ BothFinished =>
          /\ (pc = "done" /\ run.other.pc = "done")
                => run.baseCommit.sha /= run.other.run.baseCommit.sha
          /\ ~Lost(pc, run)
          /\ ~Lost(run.other.pc, run.other.run)

\* two runs read the same tip; one moved the branch, the other was refused
C36_Witness ==
    /\ BothFinished
    /\ pc = "failed" /\ run.error = "Update ref failed"
    /\ log[Len(log)].status = 422
    /\ run.other.pc = "done"
    /\ run.baseCommit.sha = run.other.run.baseCommit.sha

(***************************************************************************)
(* The setters called while a commitFiles run is suspended at a fetch.      *)
(***************************************************************************)
TargetNext ==
    \/ SetOwner
    \/ SetRepo
    \/ SetBranch
    \/ SyncNext

TargetSpec == SyncInit /\ [][TargetNext]_vars

\* the request names the owner, the repository and (where it names one) the branch
\* of the run
Names(req, r) ==
    /\ req.owner = r.owner
    /\ req.repo = r.repo
    /\ req.kind \in {"branch", "updateRef"} => req.branch = r.branch
    /\ req.kind = "createRef" => req.body.ref = <<"refs", "heads", r.branch>>

\* C37: one target per run: all requests of a single commitFiles run name the same
\* owner, repository and branch, namely the ones read when the run started, also
\* when setBranch, setRepo or setOwner is called while the run is suspended between
\* two requests.
C37_OneTargetPerRun ==
    /\ [](pc /= "idle" => \A i \in 1..Len(log) : Names(log[i], run))
    /\ [][(pc /= "idle" /\ runs' = runs) =>
            /\ run'.owner = run.owner
            /\ run'.repo = run.repo
            /\ run'.branch = run.branch]_vars

\* the ref update of a run is in flight, issued after the getters had come to
\* return another owner, repository and branch
C37_Witness ==
    /\ pc = "updateBranchRef"
    /\ Names(log[Len(log)], run)
    /\ session.signals.owner /= run.owner
    /\ session.signals.repo /= run.repo
    /\ session.signals.branch /= run.branch

\* the handler went past its validation and has ended without a pull request
WorkflowFailed ==
    /\ InWorkflow
    /\ pc = "failed" \/ StagingAborted

\* a ref update among the handler's requests succeeded
CommitSucceeded == \E i \in HandlerRequests("updateRef") : Succeeded(i)

\* C38: session branch on workflow failure: when the pull-request workflow fails at
\* any step (branch creation, staging, commit or pull-request creation), the session
\* branch after the failure equals the session branch before the workflow started;
\* the session branch equals the target branch only after a workflow whose commit
\* succeeded.
C38_SessionBranchOnFailure ==
    /\ WorkflowFailed => session.signals.branch = Handler.sourceBranch
    /\ (/\ InWorkflow /\ pc \in Finished
        /\ Handler.target /= Handler.sourceBranch
        /\ session.signals.branch = Handler.target) => CommitSucceeded

(***************************************************************************)
(* The panel from its start-up on, before a remote whose default branch is  *)
(* any of its branches.                                                     *)
(***************************************************************************)
PanelInit ==
    /\ \E branch \in Branches :
         session = ("defaultBranch" :> "main")
                       @@ GitHubInteraction("repo", "owner", "token", branch)
    /\ activeRepo = <<"repo">>
    /\ dbOpen = FALSE
    /\ \E branch \in Branches :
         LET f == makeBranchKey("repo", branch, <<"k">>)
         IN /\ db = [EmptyDb EXCEPT !["markdown"] = (f :> CachedValue(branch))]
            /\ savedUnder = [EmptyDb EXCEPT !["markdown"] = (f :> <<"repo">>)]
    /\ last = Call("restart", "", EmptyStr, NoError, Void)
    /\ \E head \in Branches, tip \in {NoRef, InitCommit} :
         refs = [b \in Branches \cup {"HEAD"} |->
                    IF b = "HEAD" THEN head ELSE IF b = head THEN InitCommit ELSE tip]
    /\ commits = (InitCommit :> [tree |-> InitTree, parents |-> << >>, message |-> "init"])
    /\ trees = (InitTree :> [base |-> None, entries |-> <<RemoteFile>>])
    /\ pc = "idle"
    /\ run = << >>
    /\ log = << >>
    /\ refs0 = refs
    /\ runs = 0

PanelNext ==
    \/ onMount
    \/ WorkflowNext

PanelSpec == PanelInit /\ [][PanelNext]_vars

\* C39: pull request never targets its own branch: a chosen branch equal to the
\* repository's default branch is rejected before any remote request, and no
\* pull-request request is issued with head equal to base, also when the
\* repository-info fetch of the panel's start-up failed.
C39_NeverTargetsOwnBranch ==
    /\ \A i \in 1..Len(log) :
          log[i].kind = "pulls" => log[i].body.head /= log[i].body.base
    /\ (InWorkflow /\ Handler.target = default_branch) => Handler.first > Len(log)

====
